---- MODULE Spec2Model ----
(***************************************************************************)
(* Model of src/ai_helper.py (BountyX AI Helper): the BountyXAI object,    *)
(* the stages main() drives over it, and the remediation lookup.          *)
(*                                                                         *)
(* Text.  A Python string is modelled as a sequence of chunks whose        *)
(* concatenation is the string.  Every string the code searches, compares  *)
(* or lower-cases (titles, severities, urls, matcher names, catalog keys)  *)
(* is kept one character per chunk, so that `in`, lower(), split() and     *)
(* re.search are computed character by character.  Strings the code only   *)
(* carries around (summaries, references, timeframes) stay TLA+ strings.   *)
(***************************************************************************)
EXTENDS Integers, Sequences, FiniteSets, TLC

VARIABLES
  pc,               \* position of main() (or of the lookup call)
  results,          \* self.results
  analysis,         \* self.analysis
  recommendations,  \* self.recommendations
  priorities,       \* self.priorities
  ai_calls,         \* external AI calls made so far, in order, each with its outcome
  ai_result,        \* value use_ai_for_analysis returned, "unset" before
  exit_code,        \* exit status of the process, -1 while main() runs
  vuln_name,        \* argument of the lookup call under test
  matcher_name,     \* argument of the lookup call under test
  lookup_result,    \* value returned by the lookup call under test
  lookup_return     \* source line of the return statement the lookup took

lookupVars == <<vuln_name, matcher_name, lookup_result, lookup_return>>

vars == <<pc, results, analysis, recommendations, priorities, ai_calls, ai_result,
          exit_code, lookupVars>>

----------------------------------------------------------------------------
(* Bounds *)

MaxNameFrags == 3
MaxBundles == 2
MaxRecords == 2
MaxHosts == 2
MaxPorts == 2
MaxDirs == 2
MaxSubdomains == 2

----------------------------------------------------------------------------
(* None and the empty dict *)

NoValue == [none |-> TRUE]
EmptyDict == <<>>

----------------------------------------------------------------------------
(* Characters and str methods *)

UpperCase == <<"A","B","C","D","E","F","G","H","I","J","K","L","M",
               "N","O","P","Q","R","S","T","U","V","W","X","Y","Z">>
LowerCase == <<"a","b","c","d","e","f","g","h","i","j","k","l","m",
               "n","o","p","q","r","s","t","u","v","w","x","y","z">>
Digits == <<"0","1","2","3","4","5","6","7","8","9">>

Range(s) == {s[i] : i \in DOMAIN s}

\* the lower-case letter of every upper-case letter
LowerOf ==
  [c \in Range(UpperCase) |-> LowerCase[CHOOSE i \in DOMAIN UpperCase : UpperCase[i] = c]]

\* str.lower() on one character
LowerChar(c) == IF c \in DOMAIN LowerOf THEN LowerOf[c] ELSE c

\* mutant: the text is used as written
lower_as_written(s) == s

\* str.lower()
lower(s) == [i \in DOMAIN s |-> LowerChar(s[i])]

\* needle occurs in hay starting at index i (1-based)
OccursAt(needle, hay, i) ==
  /\ i >= 1
  /\ i + Len(needle) - 1 <= Len(hay)
  /\ \A j \in 1..Len(needle) : hay[i + j - 1] = needle[j]

\* Python's `needle in hay` for strings
Contains(needle, hay) ==
  \E i \in 1..(Len(hay) - Len(needle) + 1) : OccursAt(needle, hay, i)

\* regex \w for the characters of the model's inputs
WordChars == Range(UpperCase) \cup Range(LowerCase) \cup Range(Digits) \cup {"_"}

IsWordChar(c) == c \in WordChars

\* regex \b at the gap before index i (i = 1 is the start, i = Len+1 the end)
WordBoundaryAt(s, i) ==
  LET before == i - 1 >= 1 /\ i - 1 <= Len(s) /\ IsWordChar(s[i - 1])
      after  == i >= 1 /\ i <= Len(s) /\ IsWordChar(s[i])
  IN  before # after

\* re.search(r'\b' + re.escape(word) + r'\b', s)
SearchWord(word, s) ==
  \E i \in 1..(Len(s) - Len(word) + 1) :
    /\ OccursAt(word, s, i)
    /\ WordBoundaryAt(s, i)
    /\ WordBoundaryAt(s, i + Len(word))

IsSpace(c) == c \in {" ", "\t", "\n"}

RECURSIVE SkipSpaces(_)
SkipSpaces(s) ==
  IF s # <<>> /\ IsSpace(Head(s)) THEN SkipSpaces(Tail(s)) ELSE s

RECURSIVE TakeWord(_)
TakeWord(s) ==
  IF s = <<>> \/ IsSpace(Head(s)) THEN <<>> ELSE <<Head(s)>> \o TakeWord(Tail(s))

\* s.split()[0]
FirstWord(s) == TakeWord(SkipSpaces(s))

----------------------------------------------------------------------------
(* Remediation catalog, in the order the dict literal defines its keys.    *)
(* Keys and summaries are the source's text.  The steps, the code example  *)
(* and the references are carried by their place in the source             *)
(* ("xss.steps[0]" is the first step of the xss entry): the code copies    *)
(* them and reads none of their text except to replace '{{URL}}', a token  *)
(* no step of the catalog contains.  A step is a sequence of chunks.       *)

remediation_db ==
  <<
    [key |-> <<"s","q","l"," ","i","n","j","e","c","t","i","o","n">>,
     template |->
       [summary |-> "Protect against SQL injection attacks by using parameterized queries and input validation",
        steps |-> <<<<"sql injection.steps[0]">>, <<"sql injection.steps[1]">>, <<"sql injection.steps[2]">>, <<"sql injection.steps[3]">>, <<"sql injection.steps[4]">>>>,
        code_example |-> "sql injection.code_example",
        references |-> <<"sql injection.references[0]", "sql injection.references[1]">>]],
    [key |-> <<"x","s","s">>,
     template |->
       [summary |-> "Prevent Cross-Site Scripting (XSS) by implementing proper output encoding and CSP headers",
        steps |-> <<<<"xss.steps[0]">>, <<"xss.steps[1]">>, <<"xss.steps[2]">>, <<"xss.steps[3]">>, <<"xss.steps[4]">>>>,
        code_example |-> "xss.code_example",
        references |-> <<"xss.references[0]", "xss.references[1]">>]],
    [key |-> <<"o","p","e","n"," ","r","e","d","i","r","e","c","t">>,
     template |->
       [summary |-> "Prevent open redirect vulnerabilities by validating destination URLs against a whitelist",
        steps |-> <<<<"open redirect.steps[0]">>, <<"open redirect.steps[1]">>, <<"open redirect.steps[2]">>, <<"open redirect.steps[3]">>, <<"open redirect.steps[4]">>>>,
        code_example |-> "open redirect.code_example",
        references |-> <<"open redirect.references[0]">>]],
    [key |-> <<"c","s","r","f">>,
     template |->
       [summary |-> "Protect against Cross-Site Request Forgery (CSRF) with anti-CSRF tokens and proper validation",
        steps |-> <<<<"csrf.steps[0]">>, <<"csrf.steps[1]">>, <<"csrf.steps[2]">>, <<"csrf.steps[3]">>, <<"csrf.steps[4]">>>>,
        code_example |-> "csrf.code_example",
        references |-> <<"csrf.references[0]", "csrf.references[1]">>]],
    [key |-> <<"s","s","r","f">>,
     template |->
       [summary |-> "Protect against Server-Side Request Forgery (SSRF) by validating and restricting URLs",
        steps |-> <<<<"ssrf.steps[0]">>, <<"ssrf.steps[1]">>, <<"ssrf.steps[2]">>, <<"ssrf.steps[3]">>, <<"ssrf.steps[4]">>>>,
        code_example |-> "ssrf.code_example",
        references |-> <<"ssrf.references[0]", "ssrf.references[1]">>]],
    [key |-> <<"l","f","i">>,
     template |->
       [summary |-> "Protect against Local File Inclusion (LFI) by restricting file access and validating paths",
        steps |-> <<<<"lfi.steps[0]">>, <<"lfi.steps[1]">>, <<"lfi.steps[2]">>, <<"lfi.steps[3]">>, <<"lfi.steps[4]">>>>,
        code_example |-> "lfi.code_example",
        references |-> <<"lfi.references[0]">>]],
    [key |-> <<"r","f","i">>,
     template |->
       [summary |-> "Protect against Remote File Inclusion (RFI) by disabling remote includes and validating sources",
        steps |-> <<<<"rfi.steps[0]">>, <<"rfi.steps[1]">>, <<"rfi.steps[2]">>, <<"rfi.steps[3]">>, <<"rfi.steps[4]">>>>,
        code_example |-> "rfi.code_example",
        references |-> <<"rfi.references[0]">>]],
    [key |-> <<"c","v","e">>,
     template |->
       [summary |-> "Address known Common Vulnerabilities and Exposures (CVEs) by applying patches and updates",
        steps |-> <<<<"cve.steps[0]">>, <<"cve.steps[1]">>, <<"cve.steps[2]">>, <<"cve.steps[3]">>, <<"cve.steps[4]">>>>,
        code_example |-> "cve.code_example",
        references |-> <<"cve.references[0]", "cve.references[1]">>]],
    [key |-> <<"o","u","t","d","a","t","e","d">>,
     template |->
       [summary |-> "Fix outdated software vulnerabilities by updating components and implementing security patches",
        steps |-> <<<<"outdated.steps[0]">>, <<"outdated.steps[1]">>, <<"outdated.steps[2]">>, <<"outdated.steps[3]">>, <<"outdated.steps[4]">>>>,
        code_example |-> "outdated.code_example",
        references |-> <<"outdated.references[0]", "outdated.references[1]">>]],
    [key |-> <<"m","i","s","s","i","n","g"," ","h","e","a","d","e","r">>,
     template |->
       [summary |-> "Implement security headers to improve web application defense against common attacks",
        steps |-> <<<<"missing header.steps[0]">>, <<"missing header.steps[1]">>, <<"missing header.steps[2]">>, <<"missing header.steps[3]">>, <<"missing header.steps[4]">>>>,
        code_example |-> "missing header.code_example",
        references |-> <<"missing header.references[0]", "missing header.references[1]">>]],
    [key |-> <<"i","n","f","o","r","m","a","t","i","o","n"," ","d","i","s","c","l","o","s","u","r","e">>,
     template |->
       [summary |-> "Prevent sensitive information disclosure by controlling error messages and removing debugging info",
        steps |-> <<<<"information disclosure.steps[0]">>, <<"information disclosure.steps[1]">>, <<"information disclosure.steps[2]">>, <<"information disclosure.steps[3]">>, <<"information disclosure.steps[4]">>>>,
        code_example |-> "information disclosure.code_example",
        references |-> <<"information disclosure.references[0]">>]],
    [key |-> <<"d","i","r","e","c","t","o","r","y"," ","l","i","s","t","i","n","g">>,
     template |->
       [summary |-> "Disable directory listing to prevent unauthorized browsing of server directories",
        steps |-> <<<<"directory listing.steps[0]">>, <<"directory listing.steps[1]">>, <<"directory listing.steps[2]">>, <<"directory listing.steps[3]">>, <<"directory listing.steps[4]">>>>,
        code_example |-> "directory listing.code_example",
        references |-> <<"directory listing.references[0]">>]],
    [key |-> <<"d","e","f","a","u","l","t"," ","c","r","e","d","e","n","t","i","a","l","s">>,
     template |->
       [summary |-> "Eliminate default credential vulnerabilities by changing passwords and implementing proper authentication",
        steps |-> <<<<"default credentials.steps[0]">>, <<"default credentials.steps[1]">>, <<"default credentials.steps[2]">>, <<"default credentials.steps[3]">>, <<"default credentials.steps[4]">>>>,
        code_example |-> "default credentials.code_example",
        references |-> <<"default credentials.references[0]", "default credentials.references[1]">>]],
    [key |-> <<"s","e","n","s","i","t","i","v","e"," ","f","i","l","e">>,
     template |->
       [summary |-> "Protect sensitive files by removing them from publicly accessible locations and implementing access controls",
        steps |-> <<<<"sensitive file.steps[0]">>, <<"sensitive file.steps[1]">>, <<"sensitive file.steps[2]">>, <<"sensitive file.steps[3]">>, <<"sensitive file.steps[4]">>>>,
        code_example |-> "sensitive file.code_example",
        references |-> <<"sensitive file.references[0]", "sensitive file.references[1]">>]],
    [key |-> <<"s","s","l"," ","t","l","s">>,
     template |->
       [summary |-> "Fix SSL/TLS vulnerabilities by configuring proper protocols, cipher suites, and certificates",
        steps |-> <<<<"ssl tls.steps[0]">>, <<"ssl tls.steps[1]">>, <<"ssl tls.steps[2]">>, <<"ssl tls.steps[3]">>, <<"ssl tls.steps[4]">>>>,
        code_example |-> "ssl tls.code_example",
        references |-> <<"ssl tls.references[0]", "ssl tls.references[1]">>]],
    [key |-> <<"c","o","r","s">>,
     template |->
       [summary |-> "Configure proper Cross-Origin Resource Sharing (CORS) policies to prevent unauthorized access",
        steps |-> <<<<"cors.steps[0]">>, <<"cors.steps[1]">>, <<"cors.steps[2]">>, <<"cors.steps[3]">>, <<"cors.steps[4]">>>>,
        code_example |-> "cors.code_example",
        references |-> <<"cors.references[0]", "cors.references[1]">>]]
  >>

\* mutant: the function falls off its end
missing_default == NoValue

default_recommendation ==
  [summary |-> "Review and fix this vulnerability based on security best practices",
   steps |-> <<<<"default.steps[0]">>, <<"default.steps[1]">>, <<"default.steps[2]">>,
               <<"default.steps[3]">>, <<"default.steps[4]">>>>,
   code_example |-> "default.code_example",
   references |-> <<"default.references[0]", "default.references[1]">>]

----------------------------------------------------------------------------
(* _get_recommendation_for_vulnerability_type                              *)

\* mutant: the first loop searches the name only
SubstringTestNameOnly(vuln_type, vuln_name_lower, matcher_name_lower) ==
  Contains(vuln_type, vuln_name_lower)

\* the test of the first loop for one key
SubstringTest(vuln_type, vuln_name_lower, matcher_name_lower) ==
  Contains(vuln_type, vuln_name_lower) \/ Contains(vuln_type, matcher_name_lower)

\* vuln_type.split()[0] for each key of the catalog, in order
first_words == [i \in DOMAIN remediation_db |-> FirstWord(remediation_db[i].key)]

\* mutant: the whole key is searched as a word, not its first word
PartialTestWholeKey(i, vuln_name_lower, matcher_name_lower) ==
  \/ SearchWord(remediation_db[i].key, vuln_name_lower)
  \/ SearchWord(remediation_db[i].key, matcher_name_lower)

\* the test of the second loop for the i-th key
PartialTest(i, vuln_name_lower, matcher_name_lower) ==
  \/ SearchWord(first_words[i], vuln_name_lower)
  \/ SearchWord(first_words[i], matcher_name_lower)

\* mutant: the loop keeps going and the last matching key wins
RECURSIVE SubstringPassLast(_, _, _)
SubstringPassLast(i, vuln_name_lower, matcher_name_lower) ==
  IF i > Len(remediation_db) THEN 0
  ELSE LET later == SubstringPassLast(i + 1, vuln_name_lower, matcher_name_lower)
       IN  IF later # 0 THEN later
           ELSE IF SubstringTest(remediation_db[i].key, vuln_name_lower, matcher_name_lower) THEN i
           ELSE 0

\* first loop: index of the entry it returns from i on, 0 when it falls through
RECURSIVE SubstringPass(_, _, _)
SubstringPass(i, vuln_name_lower, matcher_name_lower) ==
  IF i > Len(remediation_db) THEN 0
  ELSE IF SubstringTest(remediation_db[i].key, vuln_name_lower, matcher_name_lower) THEN i
  ELSE SubstringPass(i + 1, vuln_name_lower, matcher_name_lower)

\* second loop: index of the entry it returns from i on, 0 when it falls through
RECURSIVE PartialPass(_, _, _)
PartialPass(i, vuln_name_lower, matcher_name_lower) ==
  IF i > Len(remediation_db) THEN 0
  ELSE IF PartialTest(i, vuln_name_lower, matcher_name_lower) THEN i
  ELSE PartialPass(i + 1, vuln_name_lower, matcher_name_lower)

\* the return statement taken, given what the two loops found
Returned(first, second) ==
  IF first # 0 THEN [value |-> remediation_db[first].template, line |-> 1641]
  ELSE IF second # 0 THEN [value |-> remediation_db[second].template, line |-> 1647]
  ELSE [value |-> default_recommendation, line |-> 1650]

\* the whole function: the template returned and the line of the return taken
lookup_call(vn, mn) ==
  Returned(SubstringPass(1, lower(vn), lower(mn)), PartialPass(1, lower(vn), lower(mn)))

get_recommendation_for_vulnerability_type(vn, mn) == lookup_call(vn, mn).value

----------------------------------------------------------------------------
(* dict and formatting helpers *)

\* dict.get(k, default)
Get(d, k, default) == IF k \in DOMAIN d THEN d[k] ELSE default

\* str(n) as it appears in an f-string, n >= 0
RECURSIVE IntToStr(_)
IntToStr(n) ==
  IF n < 10 THEN <<Digits[n + 1]>>
  ELSE IntToStr(n \div 10) \o <<Digits[(n % 10) + 1]>>

\* string literals of the code that are searched or compared
critical == <<"c","r","i","t","i","c","a","l">>
high == <<"h","i","g","h">>
medium == <<"m","e","d","i","u","m">>
low == <<"l","o","w">>
info == <<"i","n","f","o">>
unknown == <<"u","n","k","n","o","w","n">>
CRITICAL == <<"C","R","I","T","I","C","A","L">>
WARNING == <<"W","A","R","N","I","N","G">>
UnknownVulnerability == <<"U","n","k","n","o","w","n"," ","V","u","l","n","e","r","a","b","i","l","i","t","y">>
UnnamedVulnerability == <<"U","n","n","a","m","e","d"," ","v","u","l","n","e","r","a","b","i","l","i","t","y">>
DotGit == <<".","g","i","t">>
DotEnv == <<".","e","n","v">>
WpAdmin == <<"w","p","-","a","d","m","i","n">>
Admin == <<"a","d","m","i","n">>

----------------------------------------------------------------------------
(* _find_interesting_subdomains, _find_interesting_directories             *)

subdomain_keywords ==
  << <<"a","d","m","i","n">>,
     <<"d","e","v">>,
     <<"s","t","a","g","i","n","g">>,
     <<"t","e","s","t">>,
     <<"b","e","t","a">>,
     <<"a","p","i">>,
     <<"i","n","t","e","r","n","a","l">>,
     <<"v","p","n">>,
     <<"m","a","i","l">>,
     <<"r","e","m","o","t","e">>,
     <<"p","o","r","t","a","l">>,
     <<"i","n","t","r","a","n","e","t">>,
     <<"s","e","c","u","r","e">>,
     <<"l","o","g","i","n">>,
     <<"d","b">>,
     <<"d","a","t","a","b","a","s","e">>,
     <<"a","u","t","h">>,
     <<"j","e","n","k","i","n","s">>,
     <<"g","i","t">>,
     <<"s","v","n">>,
     <<"j","i","r","a">>,
     <<"c","o","n","f","l","u","e","n","c","e">> >>

directory_keywords ==
  << <<".","g","i","t">>,
     <<".","e","n","v">>,
     <<"w","p","-","a","d","m","i","n">>,
     <<"a","d","m","i","n">>,
     <<"b","a","c","k","u","p">>,
     <<"d","b">>,
     <<"c","o","n","f","i","g">>,
     <<"d","a","s","h","b","o","a","r","d">>,
     <<"l","o","g","i","n">>,
     <<"a","p","i">>,
     <<"t","e","s","t">>,
     <<"d","e","v">>,
     <<"s","t","a","g","i","n","g">>,
     <<"b","e","t","a">>,
     <<"p","h","p","i","n","f","o">>,
     <<"p","h","p","m","y","a","d","m","i","n">>,
     <<"j","e","n","k","i","n","s">>,
     <<"j","i","r","a">>,
     <<"c","o","n","f","l","u","e","n","c","e">>,
     <<"p","a","s","s","w","o","r","d">>,
     <<"c","r","e","d","e","n","t","i","a","l","s">>,
     <<"s","q","l">>,
     <<"d","a","t","a","b","a","s","e">> >>

\* mutant: the loop goes on after a hit, one append per keyword found
RECURSIVE KeywordAppendsNoBreak(_, _, _)
KeywordAppendsNoBreak(i, keywords, text) ==
  IF i > Len(keywords) THEN 0
  ELSE (IF Contains(keywords[i], text) THEN 1 ELSE 0)
         + KeywordAppendsNoBreak(i + 1, keywords, text)

\* `for keyword in interesting_keywords: if keyword in text: append; break`:
\* how many times the body appends for one element
RECURSIVE KeywordAppends(_, _, _)
KeywordAppends(i, keywords, text) ==
  IF i > Len(keywords) THEN 0
  ELSE IF Contains(keywords[i], text) THEN 1
  ELSE KeywordAppends(i + 1, keywords, text)

RECURSIVE find_interesting_subdomains(_)
find_interesting_subdomains(subdomains) ==
  IF subdomains = <<>> THEN <<>>
  ELSE LET subdomain == Head(subdomains)
       IN  [i \in 1..KeywordAppends(1, subdomain_keywords, lower(subdomain)) |-> subdomain]
             \o find_interesting_subdomains(Tail(subdomains))

\* mutant: every directory is passed on, interesting or not
RECURSIVE find_interesting_directories_unfiltered(_)
find_interesting_directories_unfiltered(directories) ==
  IF directories = <<>> THEN <<>>
  ELSE <<Head(directories)>> \o find_interesting_directories_unfiltered(Tail(directories))

RECURSIVE find_interesting_directories(_)
find_interesting_directories(directories) ==
  IF directories = <<>> THEN <<>>
  ELSE LET directory == Head(directories)
           url == Get(directory, "url", <<>>)
       IN  [i \in 1..KeywordAppends(1, directory_keywords, lower(url)) |-> directory]
             \o find_interesting_directories(Tail(directories))

----------------------------------------------------------------------------
(* _analyze_ports *)

HostPorts(host) ==
  LET ports == Get(host, "ports", <<>>)
  IN  [i \in 1..Len(ports) |->
         [host |-> Get(host, "host", unknown),
          port |-> Get(ports[i], "port", 0),
          service |-> Get(ports[i], "service", unknown),
          version |-> Get(ports[i], "version", unknown)]]

RECURSIVE FlattenHosts(_)
FlattenHosts(hosts) ==
  IF hosts = <<>> THEN <<>> ELSE HostPorts(Head(hosts)) \o FlattenHosts(Tail(hosts))

analyze_ports(port_data) == FlattenHosts(Get(port_data, "scan_results", <<>>))

\* mutant: the hosts are counted, not their port records
CountHosts(hosts) == Len(hosts)

RECURSIVE CountOpenPorts(_)
CountOpenPorts(hosts) ==
  IF hosts = <<>> THEN 0
  ELSE Len(Get(Head(hosts), "ports", <<>>)) + CountOpenPorts(Tail(hosts))

----------------------------------------------------------------------------
(* _analyze_vulnerabilities *)

\* mutant: the remediation is looked up from the name alone
ScannerFindingNameOnly(result) ==
  LET result_info == Get(result, "info", EmptyDict)
  IN  [title |-> Get(result_info, "name", UnknownVulnerability),
       severity |-> Get(result_info, "severity", info),
       description |-> Get(result_info, "description", <<>>),
       url |-> Get(result, "host", <<>>),
       recommendation |->
         get_recommendation_for_vulnerability_type(Get(result_info, "name", <<>>), <<>>)]

\* mutant: the severity is lower-cased before it is stored
ScannerFindingLowered(result) ==
  LET result_info == Get(result, "info", EmptyDict)
  IN  [title |-> Get(result_info, "name", UnknownVulnerability),
       severity |-> lower(Get(result_info, "severity", info)),
       description |-> Get(result_info, "description", <<>>),
       url |-> Get(result, "host", <<>>),
       recommendation |->
         get_recommendation_for_vulnerability_type(
           Get(result_info, "name", <<>>), Get(result, "matcher-name", <<>>))]

\* the dict appended for one entry of vuln_data['results']
ScannerFinding(result) ==
  LET result_info == Get(result, "info", EmptyDict)
  IN  [title |-> Get(result_info, "name", UnknownVulnerability),
       severity |-> Get(result_info, "severity", info),
       description |-> Get(result_info, "description", <<>>),
       url |-> Get(result, "host", <<>>),
       recommendation |->
         get_recommendation_for_vulnerability_type(
           Get(result_info, "name", <<>>), Get(result, "matcher-name", <<>>))]

\* mutant: the title is searched without regard to case
ManualSeverityIgnoreCase(title) ==
  IF Contains(critical, lower(title)) THEN critical
  ELSE IF Contains(<<"w","a","r","n","i","n","g">>, lower(title)) THEN medium
  ELSE info

\* the severity inferred from a manual check's title
ManualSeverity(title) ==
  IF Contains(CRITICAL, title) THEN critical
  ELSE IF Contains(WARNING, title) THEN medium
  ELSE info

\* the dict appended for one entry of vuln_data['manual_checks']
ManualFinding(check) ==
  LET title == Get(check, "title", <<>>)
  IN  [title |-> title,
       severity |-> ManualSeverity(title),
       description |-> Get(check, "content", <<>>),
       recommendation |-> get_recommendation_for_vulnerability_type(title, <<>>)]

\* mutant: a bundle with both keys has both of its lists read
BundleFindingsBothKeys(vuln_data) ==
  (IF "results" \in DOMAIN vuln_data
     THEN [i \in 1..Len(vuln_data.results) |-> ScannerFinding(vuln_data.results[i])]
     ELSE <<>>)
  \o (IF "manual_checks" \in DOMAIN vuln_data
        THEN [i \in 1..Len(vuln_data.manual_checks) |-> ManualFinding(vuln_data.manual_checks[i])]
        ELSE <<>>)

BundleFindings(vuln_data) ==
  IF "results" \in DOMAIN vuln_data
    THEN [i \in 1..Len(vuln_data.results) |-> ScannerFinding(vuln_data.results[i])]
  ELSE IF "manual_checks" \in DOMAIN vuln_data
    THEN [i \in 1..Len(vuln_data.manual_checks) |-> ManualFinding(vuln_data.manual_checks[i])]
  ELSE <<>>

\* mutant: the loop ends at the first bundle with neither key
RECURSIVE analyze_vulnerabilities_until_unknown(_)
analyze_vulnerabilities_until_unknown(vulnerabilities) ==
  IF vulnerabilities = <<>> THEN <<>>
  ELSE IF DOMAIN Head(vulnerabilities) \cap {"results", "manual_checks"} = {} THEN <<>>
  ELSE BundleFindings(Head(vulnerabilities))
         \o analyze_vulnerabilities_until_unknown(Tail(vulnerabilities))

RECURSIVE analyze_vulnerabilities(_)
analyze_vulnerabilities(vulnerabilities) ==
  IF vulnerabilities = <<>> THEN <<>>
  ELSE BundleFindings(Head(vulnerabilities)) \o analyze_vulnerabilities(Tail(vulnerabilities))

----------------------------------------------------------------------------
(* analyze_results: counting by severity *)

\* the keys of vuln_count as the strings a severity is compared with
SeverityText ==
  [critical |-> critical, high |-> high, medium |-> medium, low |-> low, info |-> info]

\* mutant: the severity is compared as written
CountedUnderAsWritten(vuln) ==
  LET severity == Get(vuln, "severity", info)
  IN  IF \E k \in DOMAIN SeverityText : SeverityText[k] = severity
        THEN CHOOSE k \in DOMAIN SeverityText : SeverityText[k] = severity
        ELSE "info"

\* the key of vuln_count that one finding increments
CountedUnder(vuln) ==
  LET severity == lower(Get(vuln, "severity", info))
  IN  IF \E k \in DOMAIN SeverityText : SeverityText[k] = severity
        THEN CHOOSE k \in DOMAIN SeverityText : SeverityText[k] = severity
        ELSE "info"

RECURSIVE CountVulnerabilities(_, _)
CountVulnerabilities(vulns, vuln_count) ==
  IF vulns = <<>> THEN vuln_count
  ELSE CountVulnerabilities(Tail(vulns),
         [vuln_count EXCEPT ![CountedUnder(Head(vulns))] = @ + 1])

----------------------------------------------------------------------------
(* _get_recommendation_for_vulnerability *)

\* step.replace('{{URL}}', affected_url), chunk by chunk
RECURSIVE replace_url(_, _)
replace_url(step, affected_url) ==
  IF step = <<>> THEN <<>>
  ELSE (IF Head(step) = "{{URL}}" THEN affected_url ELSE <<Head(step)>>)
         \o replace_url(Tail(step), affected_url)

\* mutant: high is left out of the first test
TimeframeCriticalOnly(severity) ==
  IF severity = critical THEN "Immediate (within 24-48 hours)"
  ELSE IF severity = medium THEN "Short-term (within 1-2 weeks)"
  ELSE "Medium-term (within 1 month)"

\* the timeframe chosen at lines 1017-1023
Timeframe(severity) ==
  IF severity \in {critical, high} THEN "Immediate (within 24-48 hours)"
  ELSE IF severity = medium THEN "Short-term (within 1-2 weeks)"
  ELSE "Medium-term (within 1 month)"

\* mutant: affected_url is set whether or not a url is known
ContextualizedAlways(recommendation, affected_url, timeframe) ==
  [summary |-> recommendation.summary,
   steps |-> [i \in 1..Len(recommendation.steps) |->
                replace_url(recommendation.steps[i], affected_url)],
   code_example |-> recommendation.code_example,
   references |-> recommendation.references,
   affected_url |-> affected_url,
   timeframe |-> timeframe]

\* lines 1003-1023: the template's four fields, the url put into the steps,
\* and the timeframe
Contextualized(recommendation, affected_url, timeframe) ==
  IF affected_url # <<>>
    THEN [summary |-> recommendation.summary,
          steps |-> [i \in 1..Len(recommendation.steps) |->
                       replace_url(recommendation.steps[i], affected_url)],
          code_example |-> recommendation.code_example,
          references |-> recommendation.references,
          affected_url |-> affected_url,
          timeframe |-> timeframe]
    ELSE [summary |-> recommendation.summary,
          steps |-> recommendation.steps,
          code_example |-> recommendation.code_example,
          references |-> recommendation.references,
          timeframe |-> timeframe]

\* mutant: the template stored in the Finding by the normalizer is reused
get_recommendation_for_vulnerability_reusing(vuln) ==
  LET severity == lower(Get(vuln, "severity", medium))
      recommendation == vuln.recommendation
      details == Get(vuln, "details", EmptyDict)
      affected_url == Get(details, "url", Get(vuln, "url", <<>>))
  IN  Contextualized(recommendation, affected_url, Timeframe(severity))

get_recommendation_for_vulnerability(vuln) ==
  LET vuln_type == lower(Get(vuln, "title", <<>>))
      severity == lower(Get(vuln, "severity", medium))
      recommendation == get_recommendation_for_vulnerability_type(vuln_type, <<>>)
      details == Get(vuln, "details", EmptyDict)
      affected_url == Get(details, "url", Get(vuln, "url", <<>>))
  IN  Contextualized(recommendation, affected_url, Timeframe(severity))

----------------------------------------------------------------------------
(* generate_recommendations *)

\* mutant: high is left out of the first test
SeverityBucketCriticalOnly(severity) ==
  IF severity = critical THEN "high_priority"
  ELSE IF severity = medium THEN "medium_priority"
  ELSE "low_priority"

\* the bucket chosen at lines 198-203
SeverityBucket(severity) ==
  IF severity \in {critical, high} THEN "high_priority"
  ELSE IF severity = medium THEN "medium_priority"
  ELSE "low_priority"

\* mutant: a finding whose title is already in its bucket is not added again
RECURSIVE VulnerabilityRecommendationsDistinct(_, _)
VulnerabilityRecommendationsDistinct(vulns, recs) ==
  IF vulns = <<>> THEN recs
  ELSE LET vuln == Head(vulns)
           severity == lower(Get(vuln, "severity", info))
           recommendation ==
             [title |-> Get(vuln, "title", UnnamedVulnerability),
              description |-> Get(vuln, "description", <<>>),
              recommendation |-> get_recommendation_for_vulnerability(vuln)]
       IN  VulnerabilityRecommendationsDistinct(Tail(vulns),
             IF \E i \in DOMAIN recs[SeverityBucket(severity)] :
                  recs[SeverityBucket(severity)][i].title = recommendation.title
               THEN recs
               ELSE [recs EXCEPT ![SeverityBucket(severity)] = Append(@, recommendation)])

\* the loop over analysis['details']['vulnerabilities']
RECURSIVE VulnerabilityRecommendations(_, _)
VulnerabilityRecommendations(vulns, recs) ==
  IF vulns = <<>> THEN recs
  ELSE LET vuln == Head(vulns)
           severity == lower(Get(vuln, "severity", info))
           recommendation ==
             [title |-> Get(vuln, "title", UnnamedVulnerability),
              description |-> Get(vuln, "description", <<>>),
              recommendation |-> get_recommendation_for_vulnerability(vuln)]
       IN  VulnerabilityRecommendations(Tail(vulns),
             [recs EXCEPT ![SeverityBucket(severity)] = Append(@, recommendation)])

\* the entry one open port adds: <<bucket, entry>>, or <<>> for no entry
PortEntry(port_info) ==
  LET port == IntToStr(port_info.port)
      description == <<"Found ">> \o port_info.service \o <<" running on port ">> \o port
  IN  IF port_info.port \in {22, 23, 3389, 5900}
        THEN <<"medium_priority",
               [title |-> <<"Remote Access Service on Port ">> \o port,
                description |-> description,
                recommendation |-> <<"Restrict access to port ">> \o port
                  \o <<" to trusted IPs only and ensure strong authentication is in place.">>]>>
      ELSE IF port_info.port \in {80, 443}
        THEN <<"low_priority",
               [title |-> <<"Web Service on Port ">> \o port,
                description |-> description,
                recommendation |->
                  <<"Ensure the web server is properly configured with secure headers and up-to-date.">>]>>
      ELSE IF port_info.port \in {21, 20}
        THEN <<"medium_priority",
               [title |-> <<"FTP Service on Port ">> \o port,
                description |-> description,
                recommendation |->
                  <<"Consider replacing FTP with SFTP or FTPS for secure file transfers.">>]>>
      ELSE <<>>

\* mutant: an entry already in its bucket is not added again
RECURSIVE PortRecommendationsOnce(_, _)
PortRecommendationsOnce(open_ports, recs) ==
  IF open_ports = <<>> THEN recs
  ELSE LET added == PortEntry(Head(open_ports))
       IN  PortRecommendationsOnce(Tail(open_ports),
             IF added = <<>> THEN recs
             ELSE IF \E i \in DOMAIN recs[added[1]] : recs[added[1]][i].title = added[2].title
               THEN recs
             ELSE [recs EXCEPT ![added[1]] = Append(@, added[2])])

\* the loop over analysis['details']['open_ports']
RECURSIVE PortRecommendations(_, _)
PortRecommendations(open_ports, recs) ==
  IF open_ports = <<>> THEN recs
  ELSE LET added == PortEntry(Head(open_ports))
       IN  PortRecommendations(Tail(open_ports),
             IF added = <<>> THEN recs
             ELSE [recs EXCEPT ![added[1]] = Append(@, added[2])])

\* mutant: the admin test comes first
DirectoryEntryAdminFirst(dir_info) ==
  IF Contains(WpAdmin, dir_info.url) \/ Contains(Admin, dir_info.url)
    THEN <<"medium_priority",
           [title |-> <<"Admin Interface Exposed">>,
            description |-> <<"Found potential admin interface at ">> \o dir_info.url,
            recommendation |->
              <<"Restrict access to admin interfaces and use strong passwords and 2FA.">>]>>
  ELSE IF Contains(DotGit, dir_info.url) \/ Contains(DotEnv, dir_info.url)
    THEN <<"high_priority",
           [title |-> <<"Sensitive Information Exposure">>,
            description |-> <<"Found ">> \o dir_info.url
              \o <<" which may expose sensitive information">>,
            recommendation |-> <<"Remove or restrict access to ">> \o dir_info.url
              \o <<" immediately.">>]>>
  ELSE <<>>

\* mutant: the rules test the lower-cased url
DirectoryEntryIgnoreCase(dir_info) ==
  IF Contains(DotGit, lower(dir_info.url)) \/ Contains(DotEnv, lower(dir_info.url))
    THEN <<"high_priority",
           [title |-> <<"Sensitive Information Exposure">>,
            description |-> <<"Found ">> \o dir_info.url
              \o <<" which may expose sensitive information">>,
            recommendation |-> <<"Remove or restrict access to ">> \o dir_info.url
              \o <<" immediately.">>]>>
  ELSE IF Contains(WpAdmin, lower(dir_info.url)) \/ Contains(Admin, lower(dir_info.url))
    THEN <<"medium_priority",
           [title |-> <<"Admin Interface Exposed">>,
            description |-> <<"Found potential admin interface at ">> \o dir_info.url,
            recommendation |->
              <<"Restrict access to admin interfaces and use strong passwords and 2FA.">>]>>
  ELSE <<>>

\* the entry one interesting directory adds: <<bucket, entry>>, or <<>>
DirectoryEntry(dir_info) ==
  IF Contains(DotGit, dir_info.url) \/ Contains(DotEnv, dir_info.url)
    THEN <<"high_priority",
           [title |-> <<"Sensitive Information Exposure">>,
            description |-> <<"Found ">> \o dir_info.url
              \o <<" which may expose sensitive information">>,
            recommendation |-> <<"Remove or restrict access to ">> \o dir_info.url
              \o <<" immediately.">>]>>
  ELSE IF Contains(WpAdmin, dir_info.url) \/ Contains(Admin, dir_info.url)
    THEN <<"medium_priority",
           [title |-> <<"Admin Interface Exposed">>,
            description |-> <<"Found potential admin interface at ">> \o dir_info.url,
            recommendation |->
              <<"Restrict access to admin interfaces and use strong passwords and 2FA.">>]>>
  ELSE <<>>

\* the loop over analysis['details']['interesting_directories']
RECURSIVE DirectoryRecommendations(_, _)
DirectoryRecommendations(dirs, recs) ==
  IF dirs = <<>> THEN recs
  ELSE LET added == DirectoryEntry(Head(dirs))
       IN  DirectoryRecommendations(Tail(dirs),
             IF added = <<>> THEN recs
             ELSE [recs EXCEPT ![added[1]] = Append(@, added[2])])

\* dir_info['url'] at line 230 is a subscript, not a .get: position of the
\* first directory on which it raises KeyError, 0 when there is none
UrlMissingAt(dirs) ==
  IF \E i \in DOMAIN dirs : "url" \notin DOMAIN dirs[i]
    THEN CHOOSE i \in DOMAIN dirs :
           /\ "url" \notin DOMAIN dirs[i]
           /\ \A j \in 1..(i - 1) : "url" \in DOMAIN dirs[j]
    ELSE 0

\* generate_recommendations raises instead of returning
generate_raises(the_analysis) ==
  /\ "interesting_directories" \in DOMAIN the_analysis.details
  /\ UrlMissingAt(the_analysis.details.interesting_directories) # 0

\* what the loops have read when the KeyError is raised
ReadBeforeRaise(the_analysis) ==
  [the_analysis EXCEPT
     !.details = [@ EXCEPT !["interesting_directories"] = SubSeq(@, 1, UrlMissingAt(@) - 1)]]

generate_recommendations(the_analysis) ==
  LET details == the_analysis.details
      empty == [high_priority |-> <<>>, medium_priority |-> <<>>, low_priority |-> <<>>]
      after_vulns ==
        IF "vulnerabilities" \in DOMAIN details
          THEN VulnerabilityRecommendations(details.vulnerabilities, empty) ELSE empty
      after_ports ==
        IF "open_ports" \in DOMAIN details
          THEN PortRecommendations(details.open_ports, after_vulns) ELSE after_vulns
  IN  IF "interesting_directories" \in DOMAIN details
        THEN DirectoryRecommendations(details.interesting_directories, after_ports)
        ELSE after_ports

----------------------------------------------------------------------------
(* prioritize_findings *)

\* mutant: each tier lists the newest entry first
TimedNewestFirst(recs, timeframe) ==
  [i \in 1..Len(recs) |->
     [title |-> recs[Len(recs) + 1 - i].title,
      description |-> recs[Len(recs) + 1 - i].description,
      recommendation |-> recs[Len(recs) + 1 - i].recommendation,
      timeframe |-> timeframe]]

Timed(recs, timeframe) ==
  [i \in 1..Len(recs) |->
     [title |-> recs[i].title,
      description |-> recs[i].description,
      recommendation |-> recs[i].recommendation,
      timeframe |-> timeframe]]

prioritize_findings(recs) ==
  [immediate_action |->
     IF "high_priority" \in DOMAIN recs
       THEN Timed(recs.high_priority, "As soon as possible (24-48 hours)") ELSE <<>>,
   short_term |->
     IF "medium_priority" \in DOMAIN recs
       THEN Timed(recs.medium_priority, "Within 1-2 weeks") ELSE <<>>,
   long_term |->
     IF "low_priority" \in DOMAIN recs
       THEN Timed(recs.low_priority, "Within 1-3 months") ELSE <<>>]

----------------------------------------------------------------------------
(* analyze_results *)

\* mutant: an absent section is reported with a count of zero
analyze_results_zero_filled(the_results) ==
  LET subdomains == Get(the_results.subdomains, "subdomains", <<>>)
      dir_scan == Get(the_results.directories, "directory_scan", <<>>)
      live_hosts == Get(the_results.livehosts, "live_hosts", <<>>)
      vulns == analyze_vulnerabilities(the_results.vulnerabilities)
      zero == [critical |-> 0, high |-> 0, medium |-> 0, low |-> 0, info |-> 0]
      has(k) == k \in DOMAIN the_results
      summary ==
        ("subdomain_count" :> IF has("subdomains") THEN Len(subdomains) ELSE 0)
        @@ ("open_port_count" :>
              IF has("ports")
                THEN CountOpenPorts(Get(the_results.ports, "scan_results", <<>>)) ELSE 0)
        @@ ("directory_count" :> IF has("directories") THEN Len(dir_scan) ELSE 0)
        @@ ("live_host_count" :> IF has("livehosts") THEN Len(live_hosts) ELSE 0)
        @@ (IF has("vulnerabilities")
              THEN "vulnerability_count" :> CountVulnerabilities(vulns, zero) ELSE EmptyDict)
      details ==
        (IF has("subdomains")
           THEN "interesting_subdomains" :> find_interesting_subdomains(subdomains) ELSE EmptyDict)
        @@ (IF has("ports") THEN "open_ports" :> analyze_ports(the_results.ports) ELSE EmptyDict)
        @@ (IF has("directories")
              THEN "interesting_directories" :> find_interesting_directories(dir_scan)
              ELSE EmptyDict)
        @@ (IF has("vulnerabilities") THEN "vulnerabilities" :> vulns ELSE EmptyDict)
  IN  [timestamp |-> "timestamp", summary |-> summary, details |-> details]

analyze_results(the_results) ==
  LET subdomains == Get(the_results.subdomains, "subdomains", <<>>)
      dir_scan == Get(the_results.directories, "directory_scan", <<>>)
      live_hosts == Get(the_results.livehosts, "live_hosts", <<>>)
      vulns == analyze_vulnerabilities(the_results.vulnerabilities)
      zero == [critical |-> 0, high |-> 0, medium |-> 0, low |-> 0, info |-> 0]
      has(k) == k \in DOMAIN the_results
      summary ==
        (IF has("subdomains") THEN "subdomain_count" :> Len(subdomains) ELSE EmptyDict)
        @@ (IF has("ports")
              THEN "open_port_count" :> CountOpenPorts(Get(the_results.ports, "scan_results", <<>>))
              ELSE EmptyDict)
        @@ (IF has("directories") THEN "directory_count" :> Len(dir_scan) ELSE EmptyDict)
        @@ (IF has("livehosts") THEN "live_host_count" :> Len(live_hosts) ELSE EmptyDict)
        @@ (IF has("vulnerabilities")
              THEN "vulnerability_count" :> CountVulnerabilities(vulns, zero) ELSE EmptyDict)
      details ==
        (IF has("subdomains")
           THEN "interesting_subdomains" :> find_interesting_subdomains(subdomains) ELSE EmptyDict)
        @@ (IF has("ports") THEN "open_ports" :> analyze_ports(the_results.ports) ELSE EmptyDict)
        @@ (IF has("directories")
              THEN "interesting_directories" :> find_interesting_directories(dir_scan)
              ELSE EmptyDict)
        @@ (IF has("vulnerabilities") THEN "vulnerabilities" :> vulns ELSE EmptyDict)
  IN  [timestamp |-> "timestamp", summary |-> summary, details |-> details]

----------------------------------------------------------------------------
(* use_ai_for_analysis *)

UpperOf ==
  [c \in Range(LowerCase) |-> UpperCase[CHOOSE i \in DOMAIN LowerCase : LowerCase[i] = c]]

\* str.upper()
upper(s) == [i \in DOMAIN s |-> IF s[i] \in DOMAIN UpperOf THEN UpperOf[s[i]] ELSE s[i]]

\* len() of a text held as chunks
RECURSIVE TextLen(_)
TextLen(text) == IF text = <<>> THEN 0 ELSE Len(Head(text)) + TextLen(Tail(text))

\* str.rstrip(", ") of a text whose trailing commas and spaces are chunks of their own
RECURSIVE rstrip(_)
rstrip(text) ==
  IF text # <<>> /\ text[Len(text)] \in {",", " "}
    THEN rstrip(SubSeq(text, 1, Len(text) - 1)) ELSE text

\* ', '.join(items)
RECURSIVE join(_)
join(items) ==
  IF items = <<>> THEN <<>>
  ELSE IF Len(items) = 1 THEN items[1]
  ELSE items[1] \o <<",", " ">> \o join(Tail(items))

\* the services of the open ports, each once, in order of first appearance
RECURSIVE CommonServices(_, _)
CommonServices(open_ports, common_services) ==
  IF open_ports = <<>> THEN common_services
  ELSE CommonServices(Tail(open_ports),
         IF \E i \in DOMAIN common_services : common_services[i] = Head(open_ports).service
           THEN common_services ELSE Append(common_services, Head(open_ports).service))

FirstThree(s) == SubSeq(s, 1, IF Len(s) < 3 THEN Len(s) ELSE 3)

IsHighSeverity(v) == lower(Get(v, "severity", <<>>)) \in {critical, high}

\* _prepare_transformers_text: the text before the length test
transformers_text(the_analysis) ==
  LET summary == the_analysis.summary
      details == the_analysis.details
      count_part(k, tail) ==
        IF k \in DOMAIN summary THEN IntToStr(summary[k]) \o <<tail>> ELSE <<>>
      vuln_count == summary.vulnerability_count
      vuln_part ==
        IF "vulnerability_count" \in DOMAIN summary
          THEN <<"Vulnerabilities: ">> \o IntToStr(Get(vuln_count, "critical", 0)) \o <<" critical, ">>
                 \o IntToStr(Get(vuln_count, "high", 0)) \o <<" high, ">>
                 \o IntToStr(Get(vuln_count, "medium", 0)) \o <<" medium, ">>
                 \o IntToStr(Get(vuln_count, "low", 0)) \o <<" low, ">>
                 \o IntToStr(Get(vuln_count, "info", 0)) \o <<" info. ">>
          ELSE <<>>
      high_severity_vulns == SelectSeq(details.vulnerabilities, IsHighSeverity)
      top == FirstThree(high_severity_vulns)
      top_part ==
        IF "vulnerabilities" \in DOMAIN details
          THEN <<"Most critical vulnerabilities include: ">>
                 \o join([i \in 1..Len(top) |->
                            Get(top[i], "title", <<"Unknown">>) \o <<" (">>
                              \o upper(Get(top[i], "severity", <<>>)) \o <<")">>])
          ELSE <<>>
      dir_part ==
        IF "interesting_directories" \in DOMAIN details /\ details.interesting_directories # <<>>
          THEN <<"sensitive directories (">> \o IntToStr(Len(details.interesting_directories))
                 \o <<" found)", ",", " ">>
          ELSE <<>>
      port_part ==
        IF "open_ports" \in DOMAIN details /\ details.open_ports # <<>>
          THEN <<"open services (">>
                 \o join(FirstThree(CommonServices(details.open_ports, <<>>)))
                 \o <<")", ",", " ">>
          ELSE <<>>
  IN  rstrip(<<"Bug bounty scan results summary: ">>
               \o count_part("subdomain_count", " subdomains discovered. ")
               \o count_part("live_host_count", " live hosts found. ")
               \o count_part("open_port_count", " open ports detected. ")
               \o count_part("directory_count", " directories enumerated. ")
               \o vuln_part \o top_part
               \o <<" Notable findings include", " ">>
               \o dir_part \o port_part)
        \o <<".">>

\* _prepare_transformers_text returns None for a text shorter than 100
TextIsNone(the_analysis) == TextLen(transformers_text(the_analysis)) < 100

\* mutant: no call is recorded as having raised
CallNeverRaises(name, ok) == [call |-> name, raised |-> FALSE]

\* one external call and whether it raised
Call(name, ok) == [call |-> name, raised |-> ~ok]

\* mutant: a failed OpenAI call is written into the analysis
use_ai_for_analysis_recording_failure(the_analysis, env) ==
  LET result(value, enhanced, calls) ==
        [value |-> value,
         analysis |-> IF enhanced = "" /\ calls = <<>> THEN the_analysis
                      ELSE ("ai_enhanced" :> [model |-> enhanced, analysis |-> "ai text"])
                             @@ the_analysis,
         calls |-> calls]
      openai_tried == env.OPENAI_AVAILABLE /\ env.api_key
      openai_calls ==
        IF openai_tried THEN <<Call("openai.Completion.create", env.create_ok)>> ELSE <<>>
  IN  IF ~env.OPENAI_AVAILABLE /\ ~env.TRANSFORMERS_AVAILABLE
        THEN result("False", "", <<>>)
      ELSE IF openai_tried /\ env.create_ok
        THEN result("True", "OpenAI text-davinci-003", openai_calls)
      ELSE IF ~env.TRANSFORMERS_AVAILABLE
        THEN result("False", "", openai_calls)
      ELSE IF ~env.pipeline_ok
        THEN result("False", "", openai_calls \o <<Call("pipeline", FALSE)>>)
      ELSE IF TextIsNone(the_analysis)
        THEN result("False", "", openai_calls \o <<Call("pipeline", TRUE)>>)
      ELSE IF env.summarizer_ok
        THEN result("True", "HuggingFace Transformers",
                    openai_calls \o <<Call("pipeline", TRUE), Call("summarizer", TRUE)>>)
      ELSE result("False", "",
                  openai_calls \o <<Call("pipeline", TRUE), Call("summarizer", FALSE)>>)

\* the run of use_ai_for_analysis in environment env: the value returned, the
\* analysis afterwards and the external calls made, in order, each with
\* whether it raised
use_ai_for_analysis(the_analysis, env) ==
  LET result(value, enhanced, calls) ==
        [value |-> value,
         analysis |-> IF enhanced = "" THEN the_analysis
                      ELSE ("ai_enhanced" :> [model |-> enhanced, analysis |-> "ai text"])
                             @@ the_analysis,
         calls |-> calls]
      openai_tried == env.OPENAI_AVAILABLE /\ env.api_key
      openai_calls ==
        IF openai_tried THEN <<Call("openai.Completion.create", env.create_ok)>> ELSE <<>>
  IN  IF ~env.OPENAI_AVAILABLE /\ ~env.TRANSFORMERS_AVAILABLE
        THEN result("False", "", <<>>)
      ELSE IF openai_tried /\ env.create_ok
        THEN result("True", "OpenAI text-davinci-003", openai_calls)
      ELSE IF ~env.TRANSFORMERS_AVAILABLE
        THEN result("False", "", openai_calls)
      ELSE IF ~env.pipeline_ok
        THEN result("False", "", openai_calls \o <<Call("pipeline", FALSE)>>)
      ELSE IF TextIsNone(the_analysis)
        THEN result("False", "", openai_calls \o <<Call("pipeline", TRUE)>>)
      ELSE IF env.summarizer_ok
        THEN result("True", "HuggingFace Transformers",
                    openai_calls \o <<Call("pipeline", TRUE), Call("summarizer", TRUE)>>)
      ELSE result("False", "",
                  openai_calls \o <<Call("pipeline", TRUE), Call("summarizer", FALSE)>>)

Environments ==
  [OPENAI_AVAILABLE : BOOLEAN, TRANSFORMERS_AVAILABLE : BOOLEAN, api_key : BOOLEAN,
   create_ok : BOOLEAN, pipeline_ok : BOOLEAN, summarizer_ok : BOOLEAN]

----------------------------------------------------------------------------
(* Inputs: what load_results can leave in self.results *)

SeqsUpTo(S, n) == UNION {[1..k -> S] : k \in 0..n}

Absent == [absent |-> TRUE]

\* a dict with the given keys, leaving out those whose value is Absent
RECURSIVE Dict(_, _)
Dict(keys, values) ==
  IF keys = <<>> THEN EmptyDict
  ELSE (IF values[1] = Absent THEN EmptyDict ELSE Head(keys) :> values[1])
         @@ Dict(Tail(keys), Tail(values))

Text(s) == [value |-> s]

ScannerRecord(name, severity, description, host, matcher) ==
  LET result_info == Dict(<<"name", "severity", "description">>, <<name, severity, description>>)
      unwrap(d) == [k \in DOMAIN d |-> d[k].value]
  IN  unwrap(Dict(<<"host", "matcher-name">>, <<host, matcher>>))
        @@ ("info" :> unwrap(result_info))

ManualCheck(title, content) ==
  LET d == Dict(<<"title", "content">>, <<title, content>>)
  IN  [k \in DOMAIN d |-> d[k].value]

TitleXSS == <<"X","S","S">>
TitleSql == <<"s","q","l">>
TitleBug == <<"B","u","g">>
HostUrl == <<"h","t","t","p",":","/","/","a","/">>

WideNames == {Absent, Text(TitleXSS), Text(TitleSql), Text(TitleBug)}
WideSeverities ==
  {Absent, Text(critical), Text(<<"H","i","g","h">>), Text(<<"M","E","D","I","U","M">>), Text(low), Text(<<"I","n","f","o">>),
   Text(<<"u","n","k","n","o","w","n">>)}
WideTitles ==
  {Absent, Text(<<"C","R","I","T","I","C","A","L",":"," ","s","q","l"," ","i","n","j","e","c","t","i","o","n">>), Text(<<"W","A","R","N","I","N","G",":"," ","o","u","t","d","a","t","e","d"," ","T","L","S">>),
   Text(<<"W","A","R","N","I","N","G"," ","t","h","e","n"," ","C","R","I","T","I","C","A","L">>), Text(<<"c","r","i","t","i","c","a","l"," ","w","a","r","n","i","n","g">>), Text(<<"C","r","i","t","i","c","a","l"," ","W","a","r","n","i","n","g">>),
   Text(<<"p","r","e","W","A","R","N","I","N","G","p","o","s","t">>), Text(<<"I","n","f","o","r","m","a","t","i","o","n","a","l"," ","n","o","t","e">>)}

WideScannerRecords ==
  {ScannerRecord(n, s, Absent, h, m) :
     n \in WideNames, s \in WideSeverities, h \in {Absent, Text(HostUrl)},
     m \in {Absent, Text(<<"c","o","r","s">>)}}
  \cup {[host |-> HostUrl]}

WideManualChecks ==
  {ManualCheck(t, c) : t \in WideTitles, c \in {Absent, Text(<<"content">>)}}

ScannerRecords ==
  {ScannerRecord(Text(TitleXSS), Text(critical), Text(<<"d">>), Text(HostUrl), Text(<<"c","o","r","s">>)),
   ScannerRecord(Text(TitleSql), Text(<<"H","i","g","h">>), Absent, Absent, Absent),
   ScannerRecord(Text(TitleBug), Text(<<"w","e","i","r","d">>), Absent, Absent, Absent)}

ManualChecks ==
  {ManualCheck(Text(<<"W","A","R","N","I","N","G"," ","x","s","s">>), Absent),
   ManualCheck(Text(<<"n","o","t","e">>), Text(<<"content">>))}

Bundles ==
  {[results |-> s] : s \in SeqsUpTo(ScannerRecords, MaxRecords)}
  \cup {[manual_checks |-> s] : s \in SeqsUpTo(ManualChecks, MaxRecords)}
  \cup {[template |-> <<"other">>]}
  \cup {[results |-> <<ScannerRecord(Text(TitleSql), Text(<<"H","i","g","h">>), Absent, Absent, Absent)>>,
          manual_checks |-> <<ManualCheck(Text(<<"n","o","t","e">>), Text(<<"content">>))>>]}

\* a bundle of neither shape between a scanner bundle and a manual-check bundle
SkippedBundleSample ==
  <<[results |-> <<ScannerRecord(Text(TitleSql), Text(<<"H","i","g","h">>), Absent, Absent, Absent)>>],
    [template |-> <<"other">>],
    [manual_checks |-> <<ManualCheck(Text(<<"n","o","t","e">>), Text(<<"content">>))>>]>>

VulnerabilityInputs ==
  SeqsUpTo(Bundles, MaxBundles)
  \cup {SkippedBundleSample}
  \cup {<<[results |-> <<r>>]>> : r \in WideScannerRecords}
  \cup {<<[manual_checks |-> <<c>>]>> : c \in WideManualChecks}

PortRecords ==
  {[port |-> 22, service |-> <<"s","s","h">>, version |-> <<"8",".","2">>],
   [port |-> 443, service |-> <<"h","t","t","p","s">>],
   [port |-> 21],
   [port |-> 8080, service |-> <<"h","t","t","p">>]}

WidePortRecords ==
  {[port |-> p, service |-> <<"s","v","c">>] :
     p \in {20, 21, 22, 23, 80, 443, 3389, 5900, 0, 25, 2222, 8080, 8443}}
  \cup {[service |-> <<"s","v","c">>]}

Hosts ==
  {[host |-> <<"a">>, ports |-> s] : s \in SeqsUpTo(PortRecords, MaxPorts)}
  \cup {[ports |-> <<[port |-> 22, service |-> <<"s","s","h">>]>>], [host |-> <<"b">>]}

PortInputs ==
  {[scan_results |-> s] : s \in SeqsUpTo(Hosts, MaxHosts)}
  \cup {[scan_results |-> <<[host |-> <<"a">>, ports |-> <<p>>]>>] : p \in WidePortRecords}
  \cup {[target |-> <<"a">>]}

Directories ==
  {[url |-> <<"/",".","g","i","t","/","c","o","n","f","i","g">>, status |-> 200],
   [url |-> <<"/","w","p","-","a","d","m","i","n","/">>],
   [url |-> <<"/",".","G","I","T","/","x">>],
   [url |-> <<"/","A","d","m","i","n","/">>],
   [url |-> <<"/","a","d","m","i","n","/",".","e","n","v">>],
   [url |-> <<"/","i","m","g","/">>],
   [url |-> <<"/","b","a","c","k","u","p","/">>],
   [status |-> 403]}

DirectoryInputs ==
  {[directory_scan |-> s] : s \in SeqsUpTo(Directories, MaxDirs)} \cup {[target |-> <<"a">>]}

Subdomains ==
  {<<"d","e","v",".","a",".","i","o">>, <<"w","w","w",".","a",".","i","o">>,
   <<"M","a","i","l",".","a",".","i","o">>, <<"g","i","t",".","d","e","v">>}

SubdomainInputs ==
  {[subdomains |-> s] : s \in SeqsUpTo(Subdomains, MaxSubdomains)} \cup {[target |-> <<"a">>]}

LiveHostInputs == {[live_hosts |-> <<>>], [live_hosts |-> <<<<"a">>>>], [target |-> <<"a">>]}

\* one sample of each section, for the runs that load several sections
SampleSections ==
  [subdomains |-> [subdomains |-> <<<<"d","e","v",".","a",".","i","o">>>>],
   ports |-> [scan_results |->
                <<[host |-> <<"a">>, ports |-> <<[port |-> 22, service |-> <<"s","s","h">>],
                                               [port |-> 80, service |-> <<"h","t","t","p">>]>>]>>],
   directories |-> [directory_scan |-> <<[url |-> <<"/",".","g","i","t","/","c","o","n","f","i","g">>], [url |-> <<"/","w","p","-","a","d","m","i","n","/">>]>>],
   livehosts |-> [live_hosts |-> <<<<"a">>>>],
   vulnerabilities |->
     <<[results |-> <<ScannerRecord(Text(TitleXSS), Text(critical), Text(<<"d">>),
                                    Text(HostUrl), Text(<<"c","o","r","s">>))>>],
       [manual_checks |-> <<ManualCheck(Text(<<"W","A","R","N","I","N","G"," ","x","s","s">>), Absent)>>]>>]

InputResults ==
  {[k \in K |-> SampleSections[k]] : K \in SUBSET DOMAIN SampleSections}
  \cup {[vulnerabilities |-> v] : v \in VulnerabilityInputs}
  \cup {[ports |-> p] : p \in PortInputs}
  \cup {[directories |-> d] : d \in DirectoryInputs}
  \cup {[subdomains |-> s] : s \in SubdomainInputs}
  \cup {[livehosts |-> h] : h \in LiveHostInputs}

----------------------------------------------------------------------------
(* The object and main() *)

Init ==
  /\ pc = "load_results"
  /\ results = EmptyDict
  /\ analysis = EmptyDict
  /\ recommendations = EmptyDict
  /\ priorities = EmptyDict
  /\ ai_calls = <<>>
  /\ ai_result = "unset"
  /\ exit_code = -1
  /\ vuln_name = <<>>
  /\ matcher_name = <<>>
  /\ lookup_result = NoValue
  /\ lookup_return = 0

\* load_results and the test main makes of its value
LoadResults ==
  /\ pc = "load_results"
  /\ \E loaded \in InputResults :
       /\ results' = loaded
       /\ IF loaded = EmptyDict
            THEN pc' = "exit" /\ exit_code' = 1
            ELSE pc' = "analyze_results" /\ UNCHANGED exit_code
  /\ UNCHANGED <<analysis, recommendations, priorities, ai_calls, ai_result, lookupVars>>

AnalyzeResults ==
  /\ pc = "analyze_results"
  /\ analysis' = analyze_results(results)
  /\ pc' = "use_ai_for_analysis"
  /\ UNCHANGED <<results, recommendations, priorities, ai_calls, ai_result, exit_code, lookupVars>>

\* use_ai_for_analysis; main ignores the value it returns
UseAI ==
  /\ pc = "use_ai_for_analysis"
  /\ \E env \in Environments :
       \E run \in {use_ai_for_analysis(analysis, env)} :
         /\ analysis' = run.analysis
         /\ ai_calls' = ai_calls \o run.calls
         /\ ai_result' = run.value
  /\ pc' = "generate_recommendations"
  /\ UNCHANGED <<results, recommendations, priorities, exit_code, lookupVars>>

\* mutant: the recommendation built for a finding is written back into the
\* Finding it was built from
GenerateRecommendationsInPlace ==
  /\ pc = "generate_recommendations"
  /\ recommendations' = generate_recommendations(analysis)
  /\ analysis' =
       IF "vulnerabilities" \in DOMAIN analysis.details
         THEN [analysis EXCEPT
                 !.details =
                    ("vulnerabilities" :>
                       [i \in 1..Len(analysis.details.vulnerabilities) |->
                          [analysis.details.vulnerabilities[i] EXCEPT
                             !.recommendation =
                                get_recommendation_for_vulnerability(
                                  analysis.details.vulnerabilities[i])]])
                    @@ analysis.details]
         ELSE analysis
  /\ pc' = "prioritize_findings"
  /\ UNCHANGED <<results, priorities, ai_calls, ai_result, exit_code, lookupVars>>

\* generate_recommendations; a KeyError it raises is not caught by main and
\* the interpreter exits with status 1
GenerateRecommendations ==
  /\ pc = "generate_recommendations"
  /\ IF generate_raises(analysis)
       THEN /\ recommendations' = generate_recommendations(ReadBeforeRaise(analysis))
            /\ pc' = "raised"
            /\ exit_code' = 1
       ELSE /\ recommendations' = generate_recommendations(analysis)
            /\ pc' = "prioritize_findings"
            /\ UNCHANGED exit_code
  /\ UNCHANGED <<results, analysis, priorities, ai_calls, ai_result, lookupVars>>

PrioritizeFindings ==
  /\ pc = "prioritize_findings"
  /\ priorities' = prioritize_findings(recommendations)
  /\ pc' = "save_results"
  /\ UNCHANGED <<results, analysis, recommendations, ai_calls, ai_result, exit_code, lookupVars>>

\* save_results: building final_output calls self._format_remediation_plan,
\* which the class does not define; the AttributeError is not caught by main
\* and the interpreter exits with status 1
SaveResults ==
  /\ pc = "save_results"
  /\ pc' = "raised"
  /\ exit_code' = 1
  /\ UNCHANGED <<results, analysis, recommendations, priorities, ai_calls, ai_result, lookupVars>>

Next ==
  \/ LoadResults
  \/ AnalyzeResults
  \/ UseAI
  \/ GenerateRecommendations
  \/ PrioritizeFindings
  \/ SaveResults

Spec == Init /\ [][Next]_vars

----------------------------------------------------------------------------
(* The methods called again on the same instance.  Each method assigns its *)
(* attribute a new structure before it fills it, whatever the attribute    *)
(* held: the operators below take what the attribute held as `previous`.   *)

\* mutant: an attribute that is already filled is kept and appended to
kept_recommendations(previous) ==
  IF previous = EmptyDict
    THEN [high_priority |-> <<>>, medium_priority |-> <<>>, low_priority |-> <<>>]
    ELSE previous

\* self.recommendations = {...} at lines 180-185
initial_recommendations(previous) ==
  [high_priority |-> <<>>, medium_priority |-> <<>>, low_priority |-> <<>>]

\* self.priorities = {...} at lines 249-254
initial_priorities(previous) ==
  [immediate_action |-> <<>>, short_term |-> <<>>, long_term |-> <<>>]

\* generate_recommendations on an instance whose attribute held `previous`:
\* the entries are appended to the lists assigned at lines 180-185
generate_recommendations_on(previous, the_analysis) ==
  [high_priority |->
     initial_recommendations(previous).high_priority
       \o generate_recommendations(the_analysis).high_priority,
   medium_priority |->
     initial_recommendations(previous).medium_priority
       \o generate_recommendations(the_analysis).medium_priority,
   low_priority |->
     initial_recommendations(previous).low_priority
       \o generate_recommendations(the_analysis).low_priority]

\* prioritize_findings on an instance whose attribute held `previous`
prioritize_findings_on(previous, recs) ==
  [immediate_action |->
     initial_priorities(previous).immediate_action \o prioritize_findings(recs).immediate_action,
   short_term |->
     initial_priorities(previous).short_term \o prioritize_findings(recs).short_term,
   long_term |->
     initial_priorities(previous).long_term \o prioritize_findings(recs).long_term]

\* an instance after load_results returned True
RerunInit ==
  /\ pc = "analyze_results"
  /\ results \in InputResults \ {EmptyDict}
  /\ analysis = EmptyDict
  /\ recommendations = EmptyDict
  /\ priorities = EmptyDict
  /\ ai_calls = <<>>
  /\ ai_result = "unset"
  /\ exit_code = -1
  /\ vuln_name = <<>>
  /\ matcher_name = <<>>
  /\ lookup_result = NoValue
  /\ lookup_return = 0

\* analyze_results: self.analysis is assigned a new dict at lines 118-122 and
\* every key of it is assigned, none appended to
CallAnalyzeResults ==
  /\ pc = "analyze_results"
  /\ analysis' = analyze_results(results)
  /\ pc' = "generate_recommendations"
  /\ UNCHANGED <<results, recommendations, priorities, ai_calls, ai_result, exit_code, lookupVars>>

CallGenerateRecommendations ==
  /\ pc = "generate_recommendations"
  /\ ~generate_raises(analysis)
  /\ recommendations' = generate_recommendations_on(recommendations, analysis)
  /\ pc' = "prioritize_findings"
  /\ UNCHANGED <<results, analysis, priorities, ai_calls, ai_result, exit_code, lookupVars>>

\* after prioritize_findings the three methods are called again
CallPrioritizeFindings ==
  /\ pc = "prioritize_findings"
  /\ priorities' = prioritize_findings_on(priorities, recommendations)
  /\ pc' = "analyze_results"
  /\ UNCHANGED <<results, analysis, recommendations, ai_calls, ai_result, exit_code, lookupVars>>

RerunNext ==
  \/ CallAnalyzeResults
  \/ CallGenerateRecommendations
  \/ CallPrioritizeFindings

RerunSpec == RerunInit /\ [][RerunNext]_vars

----------------------------------------------------------------------------
(* Inputs of the lookup under test *)

NameFrags ==
  { <<"s","q","l"," ","i","n","j","e","c","t","i","o","n">>,
    <<"s","q","l">>,
    <<"x","s","s">>,
    <<"c","v","e">>,
    <<"C","V","E">>,
    <<"s","s","l">>,
    <<"c","o","r","s">>,
    <<" ">>,
    <<"-">>,
    <<"x">> }

\* all concatenations of at most n fragments
RECURSIVE Concats(_)
Concats(n) ==
  IF n = 0 THEN {<<>>}
  ELSE LET prev == Concats(n - 1)
       IN  prev \cup {a \o f : a \in prev, f \in NameFrags}

ReflectedXSS == <<"R","e","f","l","e","c","t","e","d"," ","X","S","S"," ","o","n"," ","/","s","e","a","r","c","h">>
CveRce == <<"C","V","E","-","2","0","2","3","-","1","2","3","4"," ","R","C","E">>
UnknownWeirdBug == <<"U","n","k","n","o","w","n"," ","W","e","i","r","d"," ","B","u","g">>

LookupNames == Concats(MaxNameFrags) \cup {ReflectedXSS, CveRce, UnknownWeirdBug}

MatcherNames == { <<>>, <<"s","q","l"," ","i","n","j","e","c","t","i","o","n">>, <<"C","O","R","S">>, <<"o","p","e","n">>, <<"r","c","e">> }

LookupInit ==
  /\ pc = "lookup_call"
  /\ vuln_name \in LookupNames
  /\ matcher_name \in MatcherNames
  /\ lookup_result = NoValue
  /\ lookup_return = 0
  /\ results = EmptyDict
  /\ analysis = EmptyDict
  /\ recommendations = EmptyDict
  /\ priorities = EmptyDict
  /\ ai_calls = <<>>
  /\ ai_result = "unset"
  /\ exit_code = -1

\* one call of _get_recommendation_for_vulnerability_type(vuln_name, matcher_name)
Lookup ==
  /\ pc = "lookup_call"
  /\ pc' = "lookup_done"
  /\ \E returned \in {lookup_call(vuln_name, matcher_name)} :
       /\ lookup_result' = returned.value
       /\ lookup_return' = returned.line
  /\ UNCHANGED <<results, analysis, recommendations, priorities, ai_calls, ai_result,
                 exit_code, vuln_name, matcher_name>>

LookupNext == Lookup

LookupSpec == LookupInit /\ [][LookupNext]_vars

----------------------------------------------------------------------------
(* Vocabulary of the lookup properties.  These definitions restate the     *)
(* documented rule; the model above computes what the loops compute.       *)

CatalogKeys ==
  << <<"s","q","l"," ","i","n","j","e","c","t","i","o","n">>,
     <<"x","s","s">>,
     <<"o","p","e","n"," ","r","e","d","i","r","e","c","t">>,
     <<"c","s","r","f">>,
     <<"s","s","r","f">>,
     <<"l","f","i">>,
     <<"r","f","i">>,
     <<"c","v","e">>,
     <<"o","u","t","d","a","t","e","d">>,
     <<"m","i","s","s","i","n","g"," ","h","e","a","d","e","r">>,
     <<"i","n","f","o","r","m","a","t","i","o","n"," ","d","i","s","c","l","o","s","u","r","e">>,
     <<"d","i","r","e","c","t","o","r","y"," ","l","i","s","t","i","n","g">>,
     <<"d","e","f","a","u","l","t"," ","c","r","e","d","e","n","t","i","a","l","s">>,
     <<"s","e","n","s","i","t","i","v","e"," ","f","i","l","e">>,
     <<"s","s","l"," ","t","l","s">>,
     <<"c","o","r","s">> >>

CatalogFirstWords ==
  << <<"s","q","l">>,
     <<"x","s","s">>,
     <<"o","p","e","n">>,
     <<"c","s","r","f">>,
     <<"s","s","r","f">>,
     <<"l","f","i">>,
     <<"r","f","i">>,
     <<"c","v","e">>,
     <<"o","u","t","d","a","t","e","d">>,
     <<"m","i","s","s","i","n","g">>,
     <<"i","n","f","o","r","m","a","t","i","o","n">>,
     <<"d","i","r","e","c","t","o","r","y">>,
     <<"d","e","f","a","u","l","t">>,
     <<"s","e","n","s","i","t","i","v","e">>,
     <<"s","s","l">>,
     <<"c","o","r","s">> >>

\* text written in lower case
SmallLetter ==
  [c \in {UpperCase[k] : k \in 1..26} |-> LowerCase[CHOOSE k \in 1..26 : UpperCase[k] = c]]

InLowerCase(s) ==
  [i \in DOMAIN s |-> IF s[i] \in DOMAIN SmallLetter THEN SmallLetter[s[i]] ELSE s[i]]

HasSubstring(needle, hay) ==
  \E i \in 1..(Len(hay) + 1) :
    /\ i + Len(needle) - 1 <= Len(hay)
    /\ SubSeq(hay, i, i + Len(needle) - 1) = needle

AlphanumericChars ==
  {UpperCase[k] : k \in 1..26} \cup {LowerCase[k] : k \in 1..26} \cup {Digits[k] : k \in 1..10} \cup {"_"}

Alphanumeric(c) == c \in AlphanumericChars

HasWholeWord(word, hay) ==
  \E i \in 1..(Len(hay) + 1) :
    LET j == i + Len(word) - 1
    IN  /\ j <= Len(hay)
        /\ SubSeq(hay, i, j) = word
        /\ (i = 1 \/ ~Alphanumeric(hay[i - 1]))
        /\ (j = Len(hay) \/ ~Alphanumeric(hay[j + 1]))

\* catalog positions whose key is a substring of either lower-cased name
SubstringKeys(vn, mn) ==
  LET v == InLowerCase(vn)
      m == InLowerCase(mn)
  IN  {k \in 1..Len(CatalogKeys) : HasSubstring(CatalogKeys[k], v) \/ HasSubstring(CatalogKeys[k], m)}

\* catalog positions whose key's first word is a whole word of either lower-cased name
WholeWordKeys(vn, mn) ==
  LET v == InLowerCase(vn)
      m == InLowerCase(mn)
  IN  {k \in 1..Len(CatalogKeys) :
         HasWholeWord(CatalogFirstWords[k], v) \/ HasWholeWord(CatalogFirstWords[k], m)}

Earliest(S) == CHOOSE k \in S : \A m \in S : k <= m

TemplateAt(k) == remediation_db[k].template

XssSummary == "Prevent Cross-Site Scripting (XSS) by implementing proper output encoding and CSP headers"
CveSummary == "Address known Common Vulnerabilities and Exposures (CVEs) by applying patches and updates"
GenericSummary == "Review and fix this vulnerability based on security best practices"

LookupDone == pc = "lookup_done"

----------------------------------------------------------------------------
(* C4: the first pass goes through the catalog keys in definition order    *)
(* and returns the template of the first key that is a substring of the    *)
(* lower-cased vuln_name or matcher_name; with several keys present the    *)
(* earliest wins, and "Reflected XSS on /search" gets the xss template.    *)
C4_FirstSubstringKeyWins ==
  LookupDone =>
    LET S == SubstringKeys(vuln_name, matcher_name)
    IN  /\ S # {} =>
              /\ lookup_return = 1641
              /\ lookup_result = TemplateAt(Earliest(S))
        /\ (vuln_name = ReflectedXSS /\ 1 \notin S) =>
              /\ 2 \in S
              /\ lookup_result.summary = XssSummary

C4_Witness ==
  /\ LookupDone
  /\ Cardinality(SubstringKeys(vuln_name, matcher_name)) >= 2
  /\ SubstringKeys(vuln_name, <<>>) # {}
  /\ SubstringKeys(<<>>, matcher_name) # {}
  /\ Earliest(SubstringKeys(<<>>, matcher_name)) < Earliest(SubstringKeys(vuln_name, <<>>))
  /\ lookup_result = TemplateAt(Earliest(SubstringKeys(<<>>, matcher_name)))

(* C5: the word-boundary pass is reached only when no key matched as a     *)
(* substring; a substring match on a late key wins over a whole-word match *)
(* of an earlier key's first word; in the fallback the first key whose     *)
(* first word is a whole word of either name is returned.                  *)
C5_FallbackOnlyAfterSubstringPass ==
  LookupDone =>
    LET S == SubstringKeys(vuln_name, matcher_name)
        W == WholeWordKeys(vuln_name, matcher_name)
    IN  /\ lookup_return = 1647 => S = {}
        /\ (S # {} /\ W # {}) => lookup_result = TemplateAt(Earliest(S))
        /\ (S = {} /\ W # {}) =>
              /\ lookup_return = 1647
              /\ lookup_result = TemplateAt(Earliest(W))

C5_Witness ==
  /\ LookupDone
  /\ SubstringKeys(vuln_name, matcher_name) # {}
  /\ WholeWordKeys(vuln_name, matcher_name) # {}
  /\ Earliest(WholeWordKeys(vuln_name, matcher_name)) < Earliest(SubstringKeys(vuln_name, matcher_name))
  /\ lookup_result = TemplateAt(Earliest(SubstringKeys(vuln_name, matcher_name)))
  /\ lookup_result # TemplateAt(Earliest(WholeWordKeys(vuln_name, matcher_name)))

C5_FallbackWitness ==
  /\ LookupDone
  /\ lookup_return = 1647
  /\ Cardinality(WholeWordKeys(vuln_name, matcher_name)) >= 2

(* C6 as stated: for "CVE-2023-1234 RCE" with an empty matcher name no key *)
(* matches in the substring pass and the cve template comes from the       *)
(* word-boundary pass.                                                     *)
C6_Original ==
  (LookupDone /\ vuln_name = CveRce /\ matcher_name = <<>>) =>
    /\ SubstringKeys(vuln_name, matcher_name) = {}
    /\ lookup_return = 1647
    /\ lookup_result.summary = CveSummary

(* C6 amended: for "CVE-2023-1234 RCE" with an empty matcher name the key  *)
(* cve is a substring of the lower-cased name, so the substring pass       *)
(* returns the cve template and the word-boundary pass is not reached.     *)
C6_CveFromSubstringPass ==
  (LookupDone /\ vuln_name = CveRce /\ matcher_name = <<>>) =>
    /\ SubstringKeys(vuln_name, matcher_name) = {8}
    /\ lookup_return = 1641
    /\ lookup_result.summary = CveSummary

C6_Witness ==
  /\ LookupDone
  /\ vuln_name = CveRce
  /\ matcher_name = <<>>
  /\ lookup_result.summary = CveSummary

(* C7: when neither pass matches a key the lookup returns the generic      *)
(* template; "Unknown Weird Bug" with an empty matcher name gets it; the   *)
(* lookup never returns null.                                              *)
C7_DefaultWhenNothingMatches ==
  LookupDone =>
    /\ lookup_result # NoValue
    /\ DOMAIN lookup_result = {"summary", "steps", "code_example", "references"}
    /\ (SubstringKeys(vuln_name, matcher_name) = {} /\ WholeWordKeys(vuln_name, matcher_name) = {}) =>
          /\ lookup_return = 1650
          /\ lookup_result.summary = GenericSummary
          /\ Len(lookup_result.steps) = 5
          /\ Len(lookup_result.references) = 2
    /\ (vuln_name = UnknownWeirdBug /\ matcher_name = <<>>) =>
          lookup_result.summary = GenericSummary

C7_Witness ==
  /\ LookupDone
  /\ vuln_name = UnknownWeirdBug
  /\ matcher_name = <<>>
  /\ lookup_result.summary = GenericSummary

----------------------------------------------------------------------------
(* Vocabulary of the pipeline properties *)

Analyzed ==
  pc \in {"use_ai_for_analysis", "generate_recommendations", "prioritize_findings",
          "save_results", "raised"}

Recommended == pc \in {"prioritize_findings", "save_results", "raised"}

\* the closed severity set, by name
SeverityNamed ==
  [critical |-> <<"c","r","i","t","i","c","a","l">>, high |-> <<"h","i","g","h">>, medium |-> <<"m","e","d","i","u","m">>,
   low |-> <<"l","o","w">>, info |-> <<"i","n","f","o">>]

ClosedSeverities == {SeverityNamed[k] : k \in DOMAIN SeverityNamed}

\* details.vulnerabilities of the analysis, empty when the section is absent
Findings ==
  IF "vulnerabilities" \in DOMAIN analysis.details
    THEN analysis.details.vulnerabilities ELSE <<>>

\* the raw records of the loaded bundles in input order, with the shape of their bundle
RECURSIVE RawRecords(_)
RawRecords(bundles) ==
  IF bundles = <<>> THEN <<>>
  ELSE LET b == Head(bundles)
           own == IF "results" \in DOMAIN b
                    THEN [i \in 1..Len(b.results) |-> [shape |-> "scanner", raw |-> b.results[i]]]
                  ELSE IF "manual_checks" \in DOMAIN b
                    THEN [i \in 1..Len(b.manual_checks) |->
                            [shape |-> "manual", raw |-> b.manual_checks[i]]]
                  ELSE <<>>
       IN  own \o RawRecords(Tail(bundles))

LoadedRecords ==
  IF "vulnerabilities" \in DOMAIN results THEN RawRecords(results.vulnerabilities) ELSE <<>>

\* the priority bucket a severity belongs to, by the documented mapping
BucketOf(severity) ==
  LET s == InLowerCase(severity)
  IN  IF s = SeverityNamed.critical \/ s = SeverityNamed.high THEN "high_priority"
      ELSE IF s = SeverityNamed.medium THEN "medium_priority"
      ELSE "low_priority"

\* positions of the findings of one bucket, in increasing order
RECURSIVE PositionsFrom(_, _)
PositionsFrom(i, bucket) ==
  IF i > Len(Findings) THEN <<>>
  ELSE (IF BucketOf(Findings[i].severity) = bucket THEN <<i>> ELSE <<>>)
         \o PositionsFrom(i + 1, bucket)

BucketNames == {"high_priority", "medium_priority", "low_priority"}

BucketTimeframe ==
  [high_priority |-> "Immediate (within 24-48 hours)",
   medium_priority |-> "Short-term (within 1-2 weeks)",
   low_priority |-> "Medium-term (within 1 month)"]

IsDict(x) == DOMAIN x \subseteq {"summary", "steps", "code_example", "references",
                                  "affected_url", "timeframe"}

----------------------------------------------------------------------------
(* C1: in analyze_results a finding whose lower-cased severity is none of   *)
(* critical, high, medium, low, info is counted under info, and a finding   *)
(* whose severity is one of the five in any letter case is counted under    *)
(* that value.                                                              *)
C1_UnknownSeverityCountedAsInfo ==
  (Analyzed /\ "vulnerabilities" \in DOMAIN analysis.details) =>
    LET count == analysis.summary.vulnerability_count
        sev(i) == InLowerCase(Findings[i].severity)
    IN  \A k \in DOMAIN SeverityNamed :
          count[k] = Cardinality({i \in DOMAIN Findings :
                                    \/ sev(i) = SeverityNamed[k]
                                    \/ k = "info" /\ sev(i) \notin ClosedSeverities})

C1_Witness ==
  /\ Analyzed
  /\ Len(Findings) = 2
  /\ Findings[1].severity = <<"H","i","g","h">>
  /\ Findings[2].severity = <<"w","e","i","r","d">>
  /\ analysis.summary.vulnerability_count.high = 1
  /\ analysis.summary.vulnerability_count.info = 1

(* C2 as stated: every Finding the normalizer produces has a severity in    *)
(* {critical, high, medium, low, info} and a non-null recommendation.       *)
C2_Original ==
  Analyzed =>
    \A i \in DOMAIN Findings :
      /\ Findings[i].severity \in ClosedSeverities
      /\ Findings[i].recommendation # NoValue

(* C2 amended: every Finding the normalizer produces has a non-null         *)
(* recommendation; a manual-check Finding has a severity in {critical,      *)
(* medium, info}; a scanner Finding carries info.severity exactly as the    *)
(* record gives it (info when absent), so its severity is in the closed set *)
(* only when the record's own value is.                                     *)
C2_SeverityAsGivenRecommendationPresent ==
  Analyzed =>
    /\ Len(Findings) = Len(LoadedRecords)
    /\ \A i \in DOMAIN Findings :
         /\ Findings[i].recommendation # NoValue
         /\ {"summary", "steps", "code_example", "references"}
              \subseteq DOMAIN Findings[i].recommendation
         /\ LoadedRecords[i].shape = "manual" =>
              Findings[i].severity \in
                {SeverityNamed.critical, SeverityNamed.medium, SeverityNamed.info}
         /\ LoadedRecords[i].shape = "scanner" =>
              LET raw == LoadedRecords[i].raw
              IN  Findings[i].severity =
                    IF "info" \in DOMAIN raw /\ "severity" \in DOMAIN raw.info
                      THEN raw.info.severity ELSE SeverityNamed.info

C2_Witness ==
  /\ Analyzed
  /\ \E i \in DOMAIN Findings :
       /\ LoadedRecords[i].shape = "scanner"
       /\ Findings[i].severity = <<"M","E","D","I","U","M">>
       /\ Findings[i].recommendation.summary = XssSummary

(* C3: a manual-check record gets severity critical if its raw title        *)
(* contains CRITICAL in exactly that case (also when WARNING is there too), *)
(* otherwise medium if it contains WARNING, otherwise info; lower-case and  *)
(* mixed-case spellings do not count.                                       *)
C3_ManualSeverityFromTitle ==
  Analyzed =>
    \A i \in DOMAIN Findings :
      LoadedRecords[i].shape = "manual" =>
        LET raw == LoadedRecords[i].raw
            title == IF "title" \in DOMAIN raw THEN raw.title ELSE <<>>
        IN  Findings[i].severity =
              IF HasSubstring(<<"C","R","I","T","I","C","A","L">>, title) THEN SeverityNamed.critical
              ELSE IF HasSubstring(<<"W","A","R","N","I","N","G">>, title) THEN SeverityNamed.medium
              ELSE SeverityNamed.info

C3_Witness ==
  /\ Analyzed
  /\ Len(Findings) = 1
  /\ LoadedRecords[1].shape = "manual"
  /\ Findings[1].title = <<"W","A","R","N","I","N","G"," ","t","h","e","n"," ","C","R","I","T","I","C","A","L">>
  /\ Findings[1].severity = SeverityNamed.critical

C3_LowerCaseWitness ==
  /\ Analyzed
  /\ Len(Findings) = 1
  /\ LoadedRecords[1].shape = "manual"
  /\ Findings[1].title = <<"c","r","i","t","i","c","a","l"," ","w","a","r","n","i","n","g">>
  /\ Findings[1].severity = SeverityNamed.info

(* C8: generate_recommendations puts each finding in exactly one bucket     *)
(* chosen from its lower-cased severity (critical or high: high_priority;   *)
(* medium: medium_priority; anything else: low_priority), and the findings  *)
(* of a bucket keep their input order.                                      *)
C8_OneBucketPerFindingInOrder ==
  Recommended =>
    \A b \in BucketNames :
      LET at == PositionsFrom(1, b)
      IN  /\ Len(recommendations[b]) >= Len(at)
          /\ \A j \in DOMAIN at :
               /\ recommendations[b][j].title = Findings[at[j]].title
               /\ recommendations[b][j].description = Findings[at[j]].description
               /\ IsDict(recommendations[b][j].recommendation)
          /\ ({"ports", "directories"} \cap DOMAIN results = {}) =>
               Len(recommendations[b]) = Len(at)

C8_Witness ==
  /\ Recommended
  /\ {"ports", "directories"} \cap DOMAIN results = {}
  /\ Len(Findings) = 4
  /\ Findings[1].title = <<"B","u","g">>
  /\ Findings[2].title = <<"s","q","l">>
  /\ Findings[3].title = <<"W","A","R","N","I","N","G"," ","x","s","s">>
  /\ Findings[4].title = <<"n","o","t","e">>
  /\ Len(recommendations.high_priority) = 1
  /\ recommendations.high_priority[1].title = <<"s","q","l">>
  /\ Len(recommendations.medium_priority) = 1
  /\ Len(recommendations.low_priority) = 2
  /\ recommendations.low_priority[1].title = <<"B","u","g">>
  /\ recommendations.low_priority[2].title = <<"n","o","t","e">>

(* C9: every finding-derived entry of the recommendations carries a         *)
(* non-null recommendation.timeframe that matches its bucket: Immediate in  *)
(* high_priority, Short-term in medium_priority, Medium-term in             *)
(* low_priority.                                                            *)
C9_TimeframeMatchesBucket ==
  Recommended =>
    \A b \in BucketNames :
      \A j \in 1..Len(PositionsFrom(1, b)) :
        /\ "timeframe" \in DOMAIN recommendations[b][j].recommendation
        /\ recommendations[b][j].recommendation.timeframe = BucketTimeframe[b]

C9_Witness ==
  /\ Recommended
  /\ \A b \in BucketNames :
       /\ PositionsFrom(1, b) # <<>>
       /\ recommendations[b][1].recommendation.timeframe = BucketTimeframe[b]
  /\ \E i \in DOMAIN Findings : Findings[i].severity = <<"H","i","g","h">>

(* Vocabulary of the open-port property *)

\* the listed ports with the bucket and title of their entry
ListedPorts ==
  22 :> [bucket |-> "medium_priority", title |-> <<"Remote Access Service on Port ", "2", "2">>] @@
  23 :> [bucket |-> "medium_priority", title |-> <<"Remote Access Service on Port ", "2", "3">>] @@
  3389 :> [bucket |-> "medium_priority", title |-> <<"Remote Access Service on Port ", "3", "3", "8", "9">>] @@
  5900 :> [bucket |-> "medium_priority", title |-> <<"Remote Access Service on Port ", "5", "9", "0", "0">>] @@
  80 :> [bucket |-> "low_priority", title |-> <<"Web Service on Port ", "8", "0">>] @@
  443 :> [bucket |-> "low_priority", title |-> <<"Web Service on Port ", "4", "4", "3">>] @@
  20 :> [bucket |-> "medium_priority", title |-> <<"FTP Service on Port ", "2", "0">>] @@
  21 :> [bucket |-> "medium_priority", title |-> <<"FTP Service on Port ", "2", "1">>]

\* the port numbers of the loaded scan, host by host, a missing port read as 0
RECURSIVE PortNumbers(_)
PortNumbers(hosts) ==
  IF hosts = <<>> THEN <<>>
  ELSE LET ports == IF "ports" \in DOMAIN Head(hosts) THEN Head(hosts).ports ELSE <<>>
       IN  [i \in 1..Len(ports) |-> IF "port" \in DOMAIN ports[i] THEN ports[i].port ELSE 0]
             \o PortNumbers(Tail(hosts))

LoadedPortNumbers ==
  IF "ports" \in DOMAIN results /\ "scan_results" \in DOMAIN results.ports
    THEN PortNumbers(results.ports.scan_results) ELSE <<>>

\* the titles expected in one bucket for the loaded port records, in order
RECURSIVE ExpectedPortTitles(_, _)
ExpectedPortTitles(numbers, bucket) ==
  IF numbers = <<>> THEN <<>>
  ELSE (IF Head(numbers) \in DOMAIN ListedPorts /\ ListedPorts[Head(numbers)].bucket = bucket
          THEN <<ListedPorts[Head(numbers)].title>> ELSE <<>>)
         \o ExpectedPortTitles(Tail(numbers), bucket)

IsPortEntry(e) ==
  /\ e.title # <<>>
  /\ e.title[1] \in {"Remote Access Service on Port ", "Web Service on Port ",
                     "FTP Service on Port "}

PortEntryTitles(bucket) ==
  LET entries == SelectSeq(recommendations[bucket], IsPortEntry)
  IN  [i \in 1..Len(entries) |-> entries[i].title]

(* C10: every open-port record of every host adds exactly one synthetic    *)
(* entry when its port is listed and none otherwise: 22, 23, 3389, 5900 a   *)
(* "Remote Access Service on Port N" entry in medium_priority, 80 and 443 a *)
(* "Web Service on Port N" entry in low_priority, 20 and 21 an "FTP Service *)
(* on Port N" entry in medium_priority; as many entries as matching         *)
(* records, the same port on two hosts counted twice.                       *)
C10_OneEntryPerListedPortRecord ==
  Recommended =>
    \A b \in BucketNames : PortEntryTitles(b) = ExpectedPortTitles(LoadedPortNumbers, b)

C10_Witness ==
  /\ Recommended
  /\ LoadedPortNumbers = <<22, 8080, 22, 443>>
  /\ Len(recommendations.medium_priority) = 2
  /\ recommendations.medium_priority[1].title = ListedPorts[22].title
  /\ recommendations.medium_priority[2].title = ListedPorts[22].title
  /\ Len(recommendations.low_priority) = 1
  /\ recommendations.low_priority[1].title = ListedPorts[443].title
  /\ recommendations.high_priority = <<>>

----------------------------------------------------------------------------
(* Vocabulary of the directory property *)

\* the directory records of the loaded directory scan, in input order
LoadedDirectories ==
  IF "directories" \in DOMAIN results /\ "directory_scan" \in DOMAIN results.directories
    THEN results.directories.directory_scan ELSE <<>>

UrlOf(directory) == IF "url" \in DOMAIN directory THEN directory.url ELSE <<>>

NamesSensitiveFile(url) ==
  HasSubstring(<<".","g","i","t">>, url) \/ HasSubstring(<<".","e","n","v">>, url)

NamesAdminInterface(url) ==
  /\ HasSubstring(<<"w","p","-","a","d","m","i","n">>, url) \/ HasSubstring(<<"a","d","m","i","n">>, url)
  /\ ~NamesSensitiveFile(url)

\* the urls of the loaded directories of one kind, in input order
RECURSIVE UrlsOfKind(_, _)
UrlsOfKind(directories, kind) ==
  IF directories = <<>> THEN <<>>
  ELSE LET url == UrlOf(Head(directories))
       IN  (IF (kind = "sensitive" /\ NamesSensitiveFile(url))
               \/ (kind = "admin" /\ NamesAdminInterface(url))
              THEN <<url>> ELSE <<>>)
             \o UrlsOfKind(Tail(directories), kind)

IsSensitiveEntry(e) == e.title = <<"Sensitive Information Exposure">>

IsAdminEntry(e) == e.title = <<"Admin Interface Exposed">>

\* the urls the entries of one title in one bucket were written for, in order
SensitiveEntryUrls(bucket) ==
  LET entries == SelectSeq(recommendations[bucket], IsSensitiveEntry)
  IN  [i \in 1..Len(entries) |->
         SubSeq(entries[i].description, 2, Len(entries[i].description) - 1)]

AdminEntryUrls(bucket) ==
  LET entries == SelectSeq(recommendations[bucket], IsAdminEntry)
  IN  [i \in 1..Len(entries) |-> Tail(entries[i].description)]

(* C11: every directory of the input scan whose url contains '.git' or     *)
(* '.env' adds exactly one "Sensitive Information Exposure" entry to        *)
(* high_priority; every directory whose url contains 'wp-admin' or 'admin'  *)
(* and neither '.git' nor '.env' adds exactly one "Admin Interface Exposed" *)
(* entry to medium_priority; no directory adds both, no other bucket gets   *)
(* such an entry, and the interesting-directory filter drops none of the    *)
(* directories these rules match.                                           *)
C11_OneEntryPerMatchingDirectory ==
  Recommended =>
    /\ SensitiveEntryUrls("high_priority") = UrlsOfKind(LoadedDirectories, "sensitive")
    /\ AdminEntryUrls("medium_priority") = UrlsOfKind(LoadedDirectories, "admin")
    /\ SensitiveEntryUrls("medium_priority") = <<>>
    /\ SensitiveEntryUrls("low_priority") = <<>>
    /\ AdminEntryUrls("high_priority") = <<>>
    /\ AdminEntryUrls("low_priority") = <<>>

C11_Witness ==
  /\ Recommended
  /\ Len(LoadedDirectories) = 2
  /\ UrlOf(LoadedDirectories[1]) = <<"/","a","d","m","i","n","/",".","e","n","v">>
  /\ UrlOf(LoadedDirectories[2]) = <<"/","w","p","-","a","d","m","i","n","/">>
  /\ Len(recommendations.high_priority) = 1
  /\ IsSensitiveEntry(recommendations.high_priority[1])
  /\ Len(recommendations.medium_priority) = 1
  /\ IsAdminEntry(recommendations.medium_priority[1])

----------------------------------------------------------------------------
(* Vocabulary of the prioritization property *)

Prioritized == pc \in {"save_results", "raised"}

\* the tier each bucket is re-keyed to, and the tier's timeframe
TierOf ==
  [high_priority |-> "immediate_action",
   medium_priority |-> "short_term",
   low_priority |-> "long_term"]

TierTimeframe ==
  [immediate_action |-> "As soon as possible (24-48 hours)",
   short_term |-> "Within 1-2 weeks",
   long_term |-> "Within 1-3 months"]

(* C12: prioritize_findings re-keys the buckets in order: immediate_action, *)
(* short_term and long_term have the length of high_priority,               *)
(* medium_priority and low_priority and, position by position, the same     *)
(* title, description and recommendation; every entry of a tier carries the *)
(* tier's fixed timeframe and nothing else; nothing is added, dropped or    *)
(* moved to another tier.                                                   *)
C12_TiersAreBucketsInOrder ==
  Prioritized =>
    /\ DOMAIN priorities = {TierOf[b] : b \in BucketNames}
    /\ \A b \in BucketNames :
         /\ Len(priorities[TierOf[b]]) = Len(recommendations[b])
         /\ \A i \in 1..Len(recommendations[b]) :
              /\ DOMAIN priorities[TierOf[b]][i]
                   = {"title", "description", "recommendation", "timeframe"}
              /\ priorities[TierOf[b]][i].title = recommendations[b][i].title
              /\ priorities[TierOf[b]][i].description = recommendations[b][i].description
              /\ priorities[TierOf[b]][i].recommendation = recommendations[b][i].recommendation
              /\ priorities[TierOf[b]][i].timeframe = TierTimeframe[TierOf[b]]

C12_Witness ==
  /\ Prioritized
  /\ Len(priorities.immediate_action) = 2
  /\ priorities.immediate_action[1].title = <<"X","S","S">>
  /\ priorities.immediate_action[2].title = <<"s","q","l">>
  /\ Len(priorities.short_term) = 1
  /\ priorities.short_term[1].timeframe = "Within 1-2 weeks"
  /\ Len(priorities.long_term) = 1
  /\ priorities.long_term[1].title = <<"n","o","t","e">>

----------------------------------------------------------------------------
(* Vocabulary of the section-presence property *)

\* the summary key and the details key each input section stands behind
SummaryKeyOf ==
  [subdomains |-> "subdomain_count",
   ports |-> "open_port_count",
   directories |-> "directory_count",
   livehosts |-> "live_host_count",
   vulnerabilities |-> "vulnerability_count"]

DetailsKeyOf ==
  [subdomains |-> "interesting_subdomains",
   ports |-> "open_ports",
   directories |-> "interesting_directories",
   vulnerabilities |-> "vulnerabilities"]

LoadedSections == DOMAIN results

(* C13: for each of the sections subdomains, ports, directories, livehosts  *)
(* and vulnerabilities, the analysis has the section's summary key and its  *)
(* details key exactly when the loaded results have the section's key, so   *)
(* an absent section leaves no count and no details entry, not a zero or an *)
(* empty one; recommendations and priorities have their three keys whatever *)
(* was loaded.                                                              *)
C13_SectionsPresentIffLoaded ==
  /\ Analyzed =>
       /\ \A s \in DOMAIN SummaryKeyOf :
            (SummaryKeyOf[s] \in DOMAIN analysis.summary) <=> (s \in LoadedSections)
       /\ \A s \in DOMAIN DetailsKeyOf :
            (DetailsKeyOf[s] \in DOMAIN analysis.details) <=> (s \in LoadedSections)
       /\ DOMAIN analysis.summary \subseteq {SummaryKeyOf[s] : s \in DOMAIN SummaryKeyOf}
       /\ DOMAIN analysis.details \subseteq {DetailsKeyOf[s] : s \in DOMAIN DetailsKeyOf}
  /\ Recommended => DOMAIN recommendations = BucketNames
  /\ Prioritized => DOMAIN priorities = {"immediate_action", "short_term", "long_term"}

C13_Witness ==
  /\ Prioritized
  /\ LoadedSections = {"ports", "livehosts"}
  /\ DOMAIN analysis.summary = {"open_port_count", "live_host_count"}
  /\ DOMAIN analysis.details = {"open_ports"}
  /\ recommendations.high_priority = <<>>
  /\ priorities.immediate_action = <<>>

----------------------------------------------------------------------------
(* C14: when analyze_results, generate_recommendations and                 *)
(* prioritize_findings are called again, in sequence, on an instance that   *)
(* already holds their outputs for the same loaded results, each call       *)
(* leaves the summary, the details, the recommendations and the priorities  *)
(* as the earlier run left them: nothing accumulates and nothing is         *)
(* duplicated.                                                              *)
C14_RerunsRebuildFromScratch ==
  [][/\ (pc = "analyze_results" /\ analysis # EmptyDict) =>
          /\ analysis'.summary = analysis.summary
          /\ analysis'.details = analysis.details
     /\ (pc = "generate_recommendations" /\ recommendations # EmptyDict) =>
          recommendations' = recommendations
     /\ (pc = "prioritize_findings" /\ priorities # EmptyDict) =>
          priorities' = priorities]_vars

\* the second round has rebuilt the analysis and the recommendations of an
\* input that fills a bucket, and prioritize_findings is about to run again
C14_Witness ==
  /\ pc = "prioritize_findings"
  /\ priorities # EmptyDict
  /\ Len(priorities.immediate_action) = 1
  /\ Len(recommendations.high_priority) = 1
  /\ Len(recommendations.medium_priority) >= 1

----------------------------------------------------------------------------
(* Vocabulary of the missing-field property *)

\* a loaded record, at any depth, that lacks a key the code reads
LacksAField ==
  \/ \E i \in DOMAIN LoadedDirectories : "url" \notin DOMAIN LoadedDirectories[i]
  \/ \E i \in DOMAIN LoadedRecords :
       \/ LoadedRecords[i].shape = "scanner" /\ "info" \notin DOMAIN LoadedRecords[i].raw
       \/ LoadedRecords[i].shape = "manual" /\ "title" \notin DOMAIN LoadedRecords[i].raw
  \/ /\ "ports" \in DOMAIN results
     /\ \/ "scan_results" \notin DOMAIN results.ports
        \/ \E h \in DOMAIN results.ports.scan_results :
             \/ "ports" \notin DOMAIN results.ports.scan_results[h]
             \/ "host" \notin DOMAIN results.ports.scan_results[h]
             \/ \E p \in DOMAIN results.ports.scan_results[h].ports :
                  DOMAIN results.ports.scan_results[h].ports[p] # {"port", "service", "version"}
  \/ "subdomains" \in DOMAIN results /\ "subdomains" \notin DOMAIN results.subdomains
  \/ "directories" \in DOMAIN results /\ "directory_scan" \notin DOMAIN results.directories
  \/ "livehosts" \in DOMAIN results /\ "live_hosts" \notin DOMAIN results.livehosts

(* C15: whatever record field or nested list key is absent from the loaded *)
(* results, analyze_results, generate_recommendations and                   *)
(* prioritize_findings each run to their return True: main leaves early     *)
(* only when nothing was loaded, every stage main has passed has filled its *)
(* attribute, and the only exception that ends a run is raised after        *)
(* prioritize_findings has returned.                                        *)
C15_MissingFieldsNeverRaise ==
  /\ pc = "exit" => results = EmptyDict
  /\ Analyzed => DOMAIN analysis = {"timestamp", "summary", "details"} \cup
                                    (DOMAIN analysis \cap {"ai_enhanced"})
  /\ pc = "raised" =>
       /\ DOMAIN recommendations = BucketNames
       /\ DOMAIN priorities = {"immediate_action", "short_term", "long_term"}

C15_Witness ==
  /\ pc = "save_results"
  /\ LacksAField
  /\ Len(LoadedDirectories) = 2
  /\ DOMAIN LoadedDirectories[1] = {"status"}
  /\ UrlOf(LoadedDirectories[2]) = <<"/",".","g","i","t","/","c","o","n","f","i","g">>
  /\ analysis.summary.directory_count = 2
  /\ Len(priorities.immediate_action) = 1

----------------------------------------------------------------------------
(* Vocabulary of the skipped-bundle property *)

LoadedBundles ==
  IF "vulnerabilities" \in DOMAIN results THEN results.vulnerabilities ELSE <<>>

HasNeitherKey(bundle) ==
  "results" \notin DOMAIN bundle /\ "manual_checks" \notin DOMAIN bundle

\* the titles the records of one bundle are given, in order
TitlesOfBundle(bundle) ==
  IF "results" \in DOMAIN bundle
    THEN [i \in 1..Len(bundle.results) |->
            IF "info" \in DOMAIN bundle.results[i] /\ "name" \in DOMAIN bundle.results[i].info
              THEN bundle.results[i].info.name
              ELSE <<"U","n","k","n","o","w","n"," ","V","u","l","n","e","r","a","b","i","l","i","t","y">>]
  ELSE IF "manual_checks" \in DOMAIN bundle
    THEN [i \in 1..Len(bundle.manual_checks) |->
            IF "title" \in DOMAIN bundle.manual_checks[i]
              THEN bundle.manual_checks[i].title ELSE <<>>]
  ELSE <<>>

\* the titles of the bundles from position i on, those of neither shape left out
RECURSIVE TitlesFrom(_)
TitlesFrom(i) ==
  IF i > Len(LoadedBundles) THEN <<>>
  ELSE (IF HasNeitherKey(LoadedBundles[i]) THEN <<>> ELSE TitlesOfBundle(LoadedBundles[i]))
         \o TitlesFrom(i + 1)

FindingTitles == [i \in 1..Len(Findings) |-> Findings[i].title]

(* C16: a vulnerability bundle with neither a 'results' nor a               *)
(* 'manual_checks' key adds no finding and stops nothing: the findings are  *)
(* those of the other bundles, the ones before it and the ones after it, in *)
(* input order, and the run goes on past analyze_results.                   *)
C16_BundleOfNeitherShapeSkipped ==
  Analyzed => FindingTitles = TitlesFrom(1)

C16_Witness ==
  /\ Analyzed
  /\ Len(LoadedBundles) = 3
  /\ ~HasNeitherKey(LoadedBundles[1])
  /\ HasNeitherKey(LoadedBundles[2])
  /\ ~HasNeitherKey(LoadedBundles[3])
  /\ FindingTitles = << <<"s","q","l">>, <<"n","o","t","e">> >>

----------------------------------------------------------------------------
(* Vocabulary of the AI-enhancement properties *)

\* the calls that hand back the enhancement text
DeliveringCalls == {"openai.Completion.create", "summarizer"}

\* some call of the run handed back a text
Delivered(calls) ==
  \E i \in DOMAIN calls : calls[i].call \in DeliveringCalls /\ ~calls[i].raised

----------------------------------------------------------------------------
\* the attempts to obtain a text, in order
Attempts == SelectSeq(ai_calls, LAMBDA c : c.call \in DeliveringCalls)

(* C18, as the specification states it: a run attempts at most one         *)
(* external AI service call, and a call that failed is never followed by    *)
(* another attempt.                                                         *)
C18_Original ==
  /\ Len(Attempts) <= 1
  /\ \A i \in DOMAIN ai_calls : ai_calls[i].raised => i = Len(ai_calls)

(* C18, as the code has it: no service is called twice in a run and a call *)
(* that handed back a text is the last one, but a failed OpenAI call is     *)
(* followed by one attempt with the transformers pipeline, so a run makes   *)
(* up to two attempts, OpenAI first; nothing follows a failure of the       *)
(* transformers pipeline or of its summarizer.                              *)
C18_OneAttemptPerServiceWithFallback ==
  /\ \A i, j \in DOMAIN ai_calls : ai_calls[i].call = ai_calls[j].call => i = j
  /\ Len(Attempts) <= 2
  /\ \A i \in DOMAIN ai_calls :
       /\ (ai_calls[i].call \in DeliveringCalls /\ ~ai_calls[i].raised) => i = Len(ai_calls)
       /\ (ai_calls[i].raised /\ i < Len(ai_calls)) =>
            /\ i = 1
            /\ ai_calls[i].call = "openai.Completion.create"
            /\ ai_calls[i + 1].call = "pipeline"
       /\ ai_calls[i].call = "summarizer" =>
            /\ i > 1
            /\ ai_calls[i - 1] = [call |-> "pipeline", raised |-> FALSE]
  /\ (ai_result = "True") <=> Delivered(ai_calls)

\* the OpenAI call raised and the summarizer, called next, handed back a text
C18_Witness ==
  /\ ai_result = "True"
  /\ ai_calls = <<[call |-> "openai.Completion.create", raised |-> TRUE],
                  [call |-> "pipeline", raised |-> FALSE],
                  [call |-> "summarizer", raised |-> FALSE]>>
  /\ analysis.ai_enhanced.model = "HuggingFace Transformers"

----------------------------------------------------------------------------
\* the entries of the buckets that were written for findings, bucket by bucket
FindingEntryTitles(bucket) ==
  [i \in 1..Len(PositionsFrom(1, bucket)) |-> recommendations[bucket][i].title]

\* the record has no title (manual check) or no name (scanner record)
Untitled(record) ==
  IF record.shape = "scanner"
    THEN "info" \notin DOMAIN record.raw \/ "name" \notin DOMAIN record.raw.info
    ELSE "title" \notin DOMAIN record.raw

(* C19: every Finding has a non-empty title; for a raw record without a    *)
(* title or name, the title of the Finding in details.vulnerabilities and   *)
(* the title of its entry in the recommendation buckets is 'Unknown         *)
(* Vulnerability' when the record is a scanner record and 'Unnamed          *)
(* vulnerability' otherwise.                                                *)
C19_EveryFindingTitled ==
  /\ Analyzed =>
       \A i \in DOMAIN Findings :
         /\ Findings[i].title # <<>>
         /\ Untitled(LoadedRecords[i]) =>
              Findings[i].title =
                IF LoadedRecords[i].shape = "scanner"
                  THEN <<"U","n","k","n","o","w","n"," ","V","u","l","n","e","r","a","b","i","l","i","t","y">>
                  ELSE <<"U","n","n","a","m","e","d"," ","v","u","l","n","e","r","a","b","i","l","i","t","y">>
  /\ Recommended =>
       \A b \in BucketNames :
         \A i \in DOMAIN FindingEntryTitles(b) : FindingEntryTitles(b)[i] # <<>>

\* a manual check without a title has gone through both stages with the
\* empty title
C19_Witness ==
  /\ Recommended
  /\ Len(LoadedRecords) = 1
  /\ LoadedRecords[1].shape = "manual"
  /\ Untitled(LoadedRecords[1])
  /\ Findings[1].title = <<>>
  /\ Len(recommendations.low_priority) = 1
  /\ recommendations.low_priority[1].title = <<>>

----------------------------------------------------------------------------
(* Vocabulary of the scanner-record property *)

\* a key of a raw record, or of its info, read with a default
Field(record, key, default) == IF key \in DOMAIN record THEN record[key] ELSE default

InfoOf(record) == Field(record, "info", <<>>)

\* the summary of the template the documented two-pass lookup gives a name and
\* a matcher name
SummaryLookedUp(vn, mn) ==
  IF SubstringKeys(vn, mn) # {} THEN TemplateAt(Earliest(SubstringKeys(vn, mn))).summary
  ELSE IF WholeWordKeys(vn, mn) # {} THEN TemplateAt(Earliest(WholeWordKeys(vn, mn))).summary
  ELSE GenericSummary

CorsSummary ==
  "Configure proper Cross-Origin Resource Sharing (CORS) policies to prevent unauthorized access"

(* C20: for every scanner-format result entry the normalizer emits a       *)
(* Finding whose title is info.name ('Unknown Vulnerability' when absent),  *)
(* whose severity is info.severity ('info' when absent), whose description  *)
(* is info.description ('' when absent), whose url is host ('' when         *)
(* absent) and whose recommendation is the template looked up from          *)
(* info.name and matcher-name; the Finding has these five keys only, so the *)
(* matcher-name itself is not stored.                                       *)
C20_ScannerFindingFields ==
  Analyzed =>
    \A i \in DOMAIN Findings :
      LoadedRecords[i].shape = "scanner" =>
        LET raw == LoadedRecords[i].raw
        IN  /\ DOMAIN Findings[i] = {"title", "severity", "description", "url", "recommendation"}
            /\ Findings[i].title =
                 Field(InfoOf(raw), "name",
                       <<"U","n","k","n","o","w","n"," ","V","u","l","n","e","r","a","b","i","l","i","t","y">>)
            /\ Findings[i].severity = Field(InfoOf(raw), "severity", <<"i","n","f","o">>)
            /\ Findings[i].description = Field(InfoOf(raw), "description", <<>>)
            /\ Findings[i].url = Field(raw, "host", <<>>)
            /\ Findings[i].recommendation.summary =
                 SummaryLookedUp(Field(InfoOf(raw), "name", <<>>), Field(raw, "matcher-name", <<>>))

\* a record whose name matches no key gets the template its matcher-name names
C20_Witness ==
  /\ Analyzed
  /\ Len(LoadedRecords) = 1
  /\ LoadedRecords[1].shape = "scanner"
  /\ Field(LoadedRecords[1].raw, "matcher-name", <<>>) = <<"c","o","r","s">>
  /\ "host" \notin DOMAIN LoadedRecords[1].raw
  /\ Findings[1].title = <<"B","u","g">>
  /\ Findings[1].url = <<>>
  /\ Findings[1].recommendation.summary = CorsSummary

----------------------------------------------------------------------------
(* Vocabulary of the per-finding template properties *)

\* the template the documented two-pass lookup gives a name and a matcher name
TemplateLookedUp(vn, mn) ==
  IF SubstringKeys(vn, mn) # {} THEN TemplateAt(Earliest(SubstringKeys(vn, mn)))
  ELSE IF WholeWordKeys(vn, mn) # {} THEN TemplateAt(Earliest(WholeWordKeys(vn, mn)))
  ELSE default_recommendation

\* the bucket entry written for the finding at position i of the findings
EntryOfFinding(i) ==
  LET b == BucketOf(Findings[i].severity)
      k == CHOOSE n \in 1..Len(PositionsFrom(1, b)) : PositionsFrom(1, b)[n] = i
  IN  recommendations[b][k]

(* C21: the template in a finding's bucket entry depends on the finding's  *)
(* title only: its summary, steps, code_example and references are those of *)
(* the lookup made with the title and an empty matcher name, so two scanner *)
(* records that differ only in matcher-name get identical entries even when *)
(* the matcher name changed the template stored in the Finding itself.      *)
C21_EntryTemplateFromTitleOnly ==
  Recommended =>
    \A i \in DOMAIN Findings :
      LET entry == EntryOfFinding(i).recommendation
          template == TemplateLookedUp(Findings[i].title, <<>>)
      IN  /\ entry.summary = template.summary
          /\ entry.steps = template.steps
          /\ entry.code_example = template.code_example
          /\ entry.references = template.references

\* the matcher name gave the Finding the cors template, its entry has the
\* default one
C21_Witness ==
  /\ Recommended
  /\ Len(LoadedRecords) = 1
  /\ LoadedRecords[1].shape = "scanner"
  /\ Field(LoadedRecords[1].raw, "matcher-name", <<>>) = <<"c","o","r","s">>
  /\ Findings[1].title = <<"B","u","g">>
  /\ Findings[1].recommendation.summary = CorsSummary
  /\ EntryOfFinding(1).recommendation.summary = GenericSummary

----------------------------------------------------------------------------
\* a step with the url written in place of every placeholder chunk
RECURSIVE Substituted(_, _)
Substituted(step, url) ==
  IF step = <<>> THEN <<>>
  ELSE (IF step[1] = "{{URL}}" THEN url ELSE <<step[1]>>)
         \o Substituted(SubSeq(step, 2, Len(step)), url)

HasPlaceholder(step) == \E k \in DOMAIN step : step[k] = "{{URL}}"

(* C22: in the recommendation built for a finding, a non-empty url of the  *)
(* finding is stored as affected_url and written in place of every          *)
(* '{{URL}}' of every step of the template; with an empty or absent url, as *)
(* for every manual-check finding, there is no affected_url key and the     *)
(* steps are the template's steps as they are.                              *)
C22_UrlPutIntoSteps ==
  Recommended =>
    \A i \in DOMAIN Findings :
      LET url == Field(Findings[i], "url", <<>>)
          entry == EntryOfFinding(i).recommendation
          template == TemplateLookedUp(Findings[i].title, <<>>)
      IN  /\ url # <<>> =>
               /\ "affected_url" \in DOMAIN entry
               /\ entry.affected_url = url
               /\ Len(entry.steps) = Len(template.steps)
               /\ \A s \in DOMAIN entry.steps :
                    /\ entry.steps[s] = Substituted(template.steps[s], url)
                    /\ ~HasPlaceholder(entry.steps[s])
          /\ url = <<>> =>
               /\ "affected_url" \notin DOMAIN entry
               /\ entry.steps = template.steps
          /\ LoadedRecords[i].shape = "manual" => url = <<>>

\* a scanner finding with a host and a manual-check finding, both recommended
C22_Witness ==
  /\ Recommended
  /\ Len(Findings) = 2
  /\ LoadedRecords[1].shape = "scanner"
  /\ LoadedRecords[2].shape = "manual"
  /\ Findings[1].url = <<"h","t","t","p",":","/","/","a","/">>
  /\ EntryOfFinding(1).recommendation.affected_url = <<"h","t","t","p",":","/","/","a","/">>
  /\ "affected_url" \notin DOMAIN EntryOfFinding(2).recommendation

----------------------------------------------------------------------------
(* C23: data flows one way.  generate_recommendations leaves the analysis, *)
(* with its summary, its details and every Finding, as it found it, and the *)
(* template stored in a Finding keeps its four keys after an entry was      *)
(* contextualized from it; prioritize_findings leaves the recommendations   *)
(* and the analysis as it found them; no stage changes the loaded results.  *)
C23_LaterStagesLeaveEarlierResults ==
  [][/\ pc = "generate_recommendations" =>
          /\ analysis' = analysis
          /\ results' = results
     /\ pc = "prioritize_findings" =>
          /\ recommendations' = recommendations
          /\ analysis' = analysis
          /\ results' = results
          /\ \A i \in DOMAIN Findings :
               DOMAIN Findings[i].recommendation
                 = {"summary", "steps", "code_example", "references"}]_vars

\* both stages have run on a finding whose entry was given a url and a
\* timeframe, and the Finding's own template has neither
C23_Witness ==
  /\ Prioritized
  /\ Len(Findings) >= 1
  /\ Field(Findings[1], "url", <<>>) # <<>>
  /\ "affected_url" \in DOMAIN EntryOfFinding(1).recommendation
  /\ "timeframe" \in DOMAIN EntryOfFinding(1).recommendation
  /\ DOMAIN Findings[1].recommendation = {"summary", "steps", "code_example", "references"}
  /\ Len(priorities.immediate_action) = Len(recommendations.high_priority)

----------------------------------------------------------------------------
(* Vocabulary of the keyword classifiers *)

SubdomainWords ==
  {<<"a","d","m","i","n">>, <<"d","e","v">>, <<"s","t","a","g","i","n","g">>, <<"t","e","s","t">>,
   <<"b","e","t","a">>, <<"a","p","i">>, <<"i","n","t","e","r","n","a","l">>, <<"v","p","n">>,
   <<"m","a","i","l">>, <<"r","e","m","o","t","e">>, <<"p","o","r","t","a","l">>,
   <<"i","n","t","r","a","n","e","t">>, <<"s","e","c","u","r","e">>, <<"l","o","g","i","n">>,
   <<"d","b">>, <<"d","a","t","a","b","a","s","e">>, <<"a","u","t","h">>,
   <<"j","e","n","k","i","n","s">>, <<"g","i","t">>, <<"s","v","n">>, <<"j","i","r","a">>,
   <<"c","o","n","f","l","u","e","n","c","e">>}

DirectoryWords ==
  {<<".","g","i","t">>, <<".","e","n","v">>, <<"w","p","-","a","d","m","i","n">>,
   <<"a","d","m","i","n">>, <<"b","a","c","k","u","p">>, <<"d","b">>, <<"c","o","n","f","i","g">>,
   <<"d","a","s","h","b","o","a","r","d">>, <<"l","o","g","i","n">>, <<"a","p","i">>,
   <<"t","e","s","t">>, <<"d","e","v">>, <<"s","t","a","g","i","n","g">>, <<"b","e","t","a">>,
   <<"p","h","p","i","n","f","o">>, <<"p","h","p","m","y","a","d","m","i","n">>,
   <<"j","e","n","k","i","n","s">>, <<"j","i","r","a">>, <<"c","o","n","f","l","u","e","n","c","e">>,
   <<"p","a","s","s","w","o","r","d">>, <<"c","r","e","d","e","n","t","i","a","l","s">>,
   <<"s","q","l">>, <<"d","a","t","a","b","a","s","e">>}

\* the keywords of a list found in the lower-cased text
WordsFound(words, text) == {w \in words : HasSubstring(w, InLowerCase(text))}

SubdomainFlagged(subdomain) == WordsFound(SubdomainWords, subdomain) # {}

DirectoryFlagged(directory) == WordsFound(DirectoryWords, UrlOf(directory)) # {}

\* the subdomain strings of the loaded subdomain list, in input order
LoadedSubdomains ==
  IF "subdomains" \in DOMAIN results /\ "subdomains" \in DOMAIN results.subdomains
    THEN results.subdomains.subdomains ELSE <<>>

(* C24: each keyword classifier returns the elements of its input whose    *)
(* lower-cased text (the subdomain, or the directory's url, '' when there  *)
(* is none) contains a keyword of its list, in input order and once each,  *)
(* however many keywords an element hits; a directory without a url is     *)
(* never among them.                                                       *)
C24_ClassifiersKeepFlaggedInOrder ==
  Analyzed =>
    /\ "subdomains" \in DOMAIN results =>
         analysis.details.interesting_subdomains
           = SelectSeq(LoadedSubdomains, SubdomainFlagged)
    /\ "directories" \in DOMAIN results =>
         /\ analysis.details.interesting_directories
              = SelectSeq(LoadedDirectories, DirectoryFlagged)
         /\ \A i \in DOMAIN analysis.details.interesting_directories :
              "url" \in DOMAIN analysis.details.interesting_directories[i]

\* a directory that hits two keywords sits between one that hits none and
\* one without a url, or a subdomain that hits two keywords was classified
C24_Witness ==
  /\ Analyzed
  /\ \/ /\ Len(LoadedDirectories) = 2
        /\ "url" \notin DOMAIN LoadedDirectories[1]
        /\ Cardinality(WordsFound(DirectoryWords, UrlOf(LoadedDirectories[2]))) >= 2
        /\ analysis.details.interesting_directories = <<LoadedDirectories[2]>>
     \/ /\ Len(LoadedSubdomains) = 2
        /\ ~SubdomainFlagged(LoadedSubdomains[1])
        /\ Cardinality(WordsFound(SubdomainWords, LoadedSubdomains[2])) >= 2
        /\ analysis.details.interesting_subdomains = <<LoadedSubdomains[2]>>

----------------------------------------------------------------------------
(* Vocabulary of the port flattening property *)

\* the hosts of the loaded port scan, in input order
LoadedHosts ==
  IF "ports" \in DOMAIN results /\ "scan_results" \in DOMAIN results.ports
    THEN results.ports.scan_results ELSE <<>>

UnknownText == <<"u","n","k","n","o","w","n">>

\* the entry documented for one port record of one host
FlatPortEntry(host, record) ==
  [host |-> Field(host, "host", UnknownText),
   port |-> Field(record, "port", 0),
   service |-> Field(record, "service", UnknownText),
   version |-> Field(record, "version", UnknownText)]

\* the entries of the hosts from the h-th on, host by host, record by record
RECURSIVE PortEntriesFrom(_)
PortEntriesFrom(h) ==
  IF h > Len(LoadedHosts) THEN <<>>
  ELSE LET records == Field(LoadedHosts[h], "ports", <<>>)
       IN  [p \in 1..Len(records) |-> FlatPortEntry(LoadedHosts[h], records[p])]
             \o PortEntriesFrom(h + 1)

(* C25: details.open_ports holds one {host, port, service, version} entry  *)
(* per port record of the scan, in host order then port order, a missing   *)
(* host, service or version being 'unknown' and a missing port 0, and      *)
(* summary.open_port_count is the length of details.open_ports.            *)
C25_PortsFlattenedAndCounted ==
  (Analyzed /\ "ports" \in DOMAIN results) =>
    /\ analysis.details.open_ports = PortEntriesFrom(1)
    /\ analysis.summary.open_port_count = Len(analysis.details.open_ports)

\* two hosts, the first without a name, with records that lack a service or
\* a version
C25_Witness ==
  /\ Analyzed
  /\ Len(LoadedHosts) = 2
  /\ "host" \notin DOMAIN LoadedHosts[1]
  /\ "host" \in DOMAIN LoadedHosts[2]
  /\ analysis.summary.open_port_count >= 2
  /\ analysis.details.open_ports[1].host = UnknownText
  /\ analysis.details.open_ports[1].version = UnknownText
  /\ analysis.details.open_ports[2].host # UnknownText
  /\ analysis.details.open_ports[2].service = UnknownText

----------------------------------------------------------------------------
(* Vocabulary of the one-finding-per-record property *)

\* whether a Finding is the one made from a raw record: the shape of its
\* keys, its title and its description are those of the record
MadeFrom(finding, record) ==
  IF record.shape = "scanner"
    THEN /\ DOMAIN finding = {"title", "severity", "description", "url", "recommendation"}
         /\ finding.title = Field(InfoOf(record.raw), "name",
                                  <<"U","n","k","n","o","w","n"," ","V","u","l","n","e","r","a","b","i","l","i","t","y">>)
         /\ finding.description = Field(InfoOf(record.raw), "description", <<>>)
         /\ finding.url = Field(record.raw, "host", <<>>)
    ELSE /\ DOMAIN finding = {"title", "severity", "description", "recommendation"}
         /\ finding.title = Field(record.raw, "title", <<>>)
         /\ finding.description = Field(record.raw, "content", <<>>)

SeverityCountTotal ==
  LET count == analysis.summary.vulnerability_count
  IN  count.critical + count.high + count.medium + count.low + count.info

(* C26: details.vulnerabilities holds one Finding per record of every      *)
(* recognized bundle (the 'results' list of a bundle that has one, else    *)
(* its 'manual_checks' list), in bundle order then record order, equal     *)
(* records included, and the five values of summary.vulnerability_count    *)
(* sum to the length of details.vulnerabilities.                           *)
C26_OneFindingPerRecord ==
  (Analyzed /\ "vulnerabilities" \in DOMAIN results) =>
    /\ Len(analysis.details.vulnerabilities) = Len(LoadedRecords)
    /\ \A i \in DOMAIN LoadedRecords :
         MadeFrom(analysis.details.vulnerabilities[i], LoadedRecords[i])
    /\ DOMAIN analysis.summary.vulnerability_count
         = {"critical", "high", "medium", "low", "info"}
    /\ SeverityCountTotal = Len(analysis.details.vulnerabilities)

\* two bundles of different shapes gave their findings in bundle order
C26_Witness ==
  /\ Analyzed
  /\ "vulnerabilities" \in DOMAIN results
  /\ Len(LoadedBundles) = 2
  /\ Len(LoadedRecords) >= 2
  /\ LoadedRecords[1].shape = "manual"
  /\ LoadedRecords[Len(LoadedRecords)].shape = "scanner"
  /\ SeverityCountTotal = Len(LoadedRecords)
  /\ "url" \notin DOMAIN analysis.details.vulnerabilities[1]
  /\ "url" \in DOMAIN analysis.details.vulnerabilities[Len(LoadedRecords)]

----------------------------------------------------------------------------
(* Vocabulary of the entry count property *)

EntryTotal ==
  Len(recommendations.high_priority) + Len(recommendations.medium_priority)
    + Len(recommendations.low_priority)

\* positions of the loaded port records whose port is one of the listed eight
ListedPortPositions ==
  {i \in DOMAIN LoadedPortNumbers :
     LoadedPortNumbers[i] \in {20, 21, 22, 23, 80, 443, 3389, 5900}}

\* positions of the loaded directories that are interesting and whose url,
\* as written, matches the .git/.env rule or the wp-admin/admin rule
RuleMatchedDirectories ==
  {i \in DOMAIN LoadedDirectories :
     /\ DirectoryFlagged(LoadedDirectories[i])
     /\ \/ HasSubstring(<<".","g","i","t">>, UrlOf(LoadedDirectories[i]))
        \/ HasSubstring(<<".","e","n","v">>, UrlOf(LoadedDirectories[i]))
        \/ HasSubstring(<<"a","d","m","i","n">>, UrlOf(LoadedDirectories[i]))}

(* C27: after generate_recommendations the three buckets together hold as  *)
(* many entries as there are findings, port records with a port among 20,  *)
(* 21, 22, 23, 80, 443, 3389, 5900, and interesting directories matched by *)
(* the .git/.env/admin rules; with no port record and no directory,        *)
(* high_priority has count[critical]+count[high] entries, medium_priority  *)
(* count[medium] and low_priority count[low]+count[info].                  *)
C27_EntryTotals ==
  Recommended =>
    /\ EntryTotal = Len(Findings) + Cardinality(ListedPortPositions)
                      + Cardinality(RuleMatchedDirectories)
    /\ ("vulnerabilities" \in DOMAIN results
          /\ LoadedPortNumbers = <<>> /\ LoadedDirectories = <<>>) =>
         LET count == analysis.summary.vulnerability_count
         IN  /\ Len(recommendations.high_priority) = count.critical + count.high
             /\ Len(recommendations.medium_priority) = count.medium
             /\ Len(recommendations.low_priority) = count.low + count.info

\* findings, listed ports and matched directories all added entries
C27_Witness ==
  /\ Recommended
  /\ Len(Findings) = 2
  /\ Cardinality(ListedPortPositions) = 2
  /\ Cardinality(RuleMatchedDirectories) = 2
  /\ EntryTotal = 6

----------------------------------------------------------------------------
(* Vocabulary of the fallback property *)

MultiWordKeys ==
  {<<"s","q","l"," ","i","n","j","e","c","t","i","o","n">>,
   <<"o","p","e","n"," ","r","e","d","i","r","e","c","t">>,
   <<"m","i","s","s","i","n","g"," ","h","e","a","d","e","r">>,
   <<"i","n","f","o","r","m","a","t","i","o","n"," ","d","i","s","c","l","o","s","u","r","e">>,
   <<"d","i","r","e","c","t","o","r","y"," ","l","i","s","t","i","n","g">>,
   <<"d","e","f","a","u","l","t"," ","c","r","e","d","e","n","t","i","a","l","s">>,
   <<"s","e","n","s","i","t","i","v","e"," ","f","i","l","e">>,
   <<"s","s","l"," ","t","l","s">>}

SingleWordKeys ==
  {<<"x","s","s">>, <<"c","s","r","f">>, <<"s","s","r","f">>, <<"l","f","i">>, <<"r","f","i">>,
   <<"c","v","e">>, <<"o","u","t","d","a","t","e","d">>, <<"c","o","r","s">>}

\* the lookup returned from the word-boundary pass, from the substring pass
ReturnedByFallback == lookup_return = 1647

ReturnedBySubstringPass == lookup_return = 1641

(* C28: the word-boundary fallback only ever returns the template of one   *)
(* of the eight multi-word catalog keys; whenever a single-word key        *)
(* matches the lower-cased name or matcher name as a whole word, the       *)
(* substring pass has returned a template and the fallback is not reached; *)
(* the sixteen keys are the eight multi-word and the eight single-word.    *)
C28_FallbackReturnsMultiWordKeysOnly ==
  LookupDone =>
    /\ {CatalogKeys[k] : k \in DOMAIN CatalogKeys} = MultiWordKeys \cup SingleWordKeys
    /\ ReturnedByFallback =>
         \E k \in DOMAIN CatalogKeys :
           /\ CatalogKeys[k] \in MultiWordKeys
           /\ k \in WholeWordKeys(vuln_name, matcher_name)
           /\ lookup_result = TemplateAt(k)
    /\ \A k \in WholeWordKeys(vuln_name, matcher_name) :
         CatalogKeys[k] \in SingleWordKeys => ReturnedBySubstringPass
    /\ \A k \in DOMAIN CatalogKeys :
         (CatalogKeys[k] \in SingleWordKeys /\ ReturnedByFallback) =>
           lookup_result # TemplateAt(k)

\* the fallback returned the 'sql injection' template for a name that has
\* 'sql' as a word and contains no catalog key
C28_Witness ==
  /\ LookupDone
  /\ ReturnedByFallback
  /\ SubstringKeys(vuln_name, matcher_name) = {}
  /\ 1 \in WholeWordKeys(vuln_name, matcher_name)
  /\ lookup_result = TemplateAt(1)

----------------------------------------------------------------------------
(* Vocabulary of the letter-case property of directories *)

RuleWords ==
  {<<".","g","i","t">>, <<".","e","n","v">>, <<"w","p","-","a","d","m","i","n">>,
   <<"a","d","m","i","n">>}

\* a url that has a rule word only in upper or mixed case
RuleWordOnlyInOtherCase(url) ==
  /\ \E w \in RuleWords : HasSubstring(w, InLowerCase(url))
  /\ \A w \in RuleWords : ~HasSubstring(w, url)

\* the urls the synthetic directory entries of all buckets were written for
DirectoryEntryUrlsOfAllBuckets ==
  UNION {{SensitiveEntryUrls(b)[i] : i \in DOMAIN SensitiveEntryUrls(b)}
           \cup {AdminEntryUrls(b)[i] : i \in DOMAIN AdminEntryUrls(b)} : b \in BucketNames}

(* C29: a directory whose url has '.git', '.env', 'wp-admin' or 'admin'    *)
(* only in upper or mixed case is in details.interesting_directories, the  *)
(* interest being decided on the lower-cased url, and adds no entry to any *)
(* recommendation bucket, the rules testing the url as written.            *)
C29_OtherCaseFlaggedButNoEntry ==
  Recommended =>
    \A i \in DOMAIN LoadedDirectories :
      RuleWordOnlyInOtherCase(UrlOf(LoadedDirectories[i])) =>
        /\ \E j \in DOMAIN analysis.details.interesting_directories :
             analysis.details.interesting_directories[j] = LoadedDirectories[i]
        /\ UrlOf(LoadedDirectories[i]) \notin DirectoryEntryUrlsOfAllBuckets

\* '/.GIT/x' and '/Admin/' were both flagged and the buckets stayed empty
C29_Witness ==
  /\ Recommended
  /\ Len(LoadedDirectories) = 2
  /\ UrlOf(LoadedDirectories[1]) = <<"/",".","G","I","T","/","x">>
  /\ UrlOf(LoadedDirectories[2]) = <<"/","A","d","m","i","n","/">>
  /\ analysis.details.interesting_directories = LoadedDirectories
  /\ \A b \in BucketNames : recommendations[b] = <<>>

----------------------------------------------------------------------------
(* Vocabulary of the stage order property *)

\* the stage main may be at after each stage, as documented: the next stage
\* once the stage returned True, the end of main after load_results found
\* nothing and after save_results
StageAfter ==
  [load_results |-> {"analyze_results", "exit"},
   analyze_results |-> {"use_ai_for_analysis"},
   use_ai_for_analysis |-> {"generate_recommendations"},
   generate_recommendations |-> {"prioritize_findings"},
   prioritize_findings |-> {"save_results"},
   save_results |-> {"exit"}]

MainEnded == exit_code # -1

NothingLoaded == results = <<>>

\* one step of main follows the documented order
StepInOrder == pc \in DOMAIN StageAfter /\ pc' \in StageAfter[pc]

(* C30: main runs load_results, analyze_results, use_ai_for_analysis,      *)
(* generate_recommendations, prioritize_findings, save_results in this     *)
(* order, whatever the AI step returned; when nothing was loaded it ends   *)
(* with exit code 1 with no analysis made; when results were loaded,       *)
(* save_results completes and main ends with exit code 0.                  *)
C30_StagesInOrderThenExitZero ==
  /\ [][StepInOrder]_vars
  /\ [](MainEnded =>
          IF NothingLoaded
            THEN exit_code = 1 /\ analysis = <<>> /\ priorities = <<>>
            ELSE exit_code = 0 /\ pc = "exit")

\* results were loaded, every stage up to prioritize_findings ran, and the
\* run ended in save_results with an exception and status 1
C30_Witness ==
  /\ ~NothingLoaded
  /\ pc = "raised"
  /\ exit_code = 1
  /\ DOMAIN priorities = {"immediate_action", "short_term", "long_term"}

====
